---------------------------- MODULE Spec2Model ----------------------------
(***************************************************************************)
(* A model of the AetherTerm agent server core: the buffer manager, the    *)
(* global workspace service, the terminal session service and the          *)
(* Socket.IO handlers that attach clients to terminal sessions.            *)
(*                                                                         *)
(* The module holds several specifications over one set of variables.      *)
(* Each specification drives one component; the variables of the other     *)
(* components keep their initial values under it.                          *)
(*                                                                         *)
(*   SpecBuf   BufferManager (infrastructure/terminal/buffer_manager.py)   *)
(*   SpecSvc   TerminalSessionService and PTYManager                       *)
(*             (domain/services/terminal_session_service.py,               *)
(*              infrastructure/terminal/pty_manager.py)                    *)
(*   SpecWs    GlobalWorkspaceService                                      *)
(*             (domain/services/global_workspace_service.py)               *)
(*   SpecSock  the handlers that attach clients to terminals, the closure  *)
(*             tasks and the output of the terminals                       *)
(*             (presentation/websocket/socket_handlers.py); SpecSockFair   *)
(*             adds the fairness of the event loop                         *)
(*   SpecGate  Users and Viewers calling the handlers that modify          *)
(*   SpecTabs  tabs bound to terminals, created and closed                 *)
(*                                                                         *)
(* AsyncioTerminal (domain/entities/terminals/asyncio_terminal.py) is not  *)
(* among the sources; its registry, its close() and its read loop follow   *)
(* sections 3, 4.2, 4.3 and 4.4 of the specification.                      *)
(***************************************************************************)
EXTENDS Integers, Sequences, FiniteSets, TLC

(***************************************************************************)
(* Bounds of the model.  Sizes and durations of the program are scaled:    *)
(* the code compares lengths and clock differences against them and never  *)
(* uses their absolute value.                                              *)
(***************************************************************************)

\* BufferManager.MAX_BUFFER_SIZE is 500 * 1024 characters (buffer_manager.py:21);
\* the model counts in units that make the cap this many characters.
MAX_BUFFER_SIZE == 2

\* BufferManager.BUFFER_CLEANUP_INTERVAL is 3600 s (buffer_manager.py:22),
\* BufferManager.BUFFER_MAX_AGE is 86400 s (buffer_manager.py:23); the model's
\* clock ticks in coarse units that keep INTERVAL < MAX_AGE.
BUFFER_CLEANUP_INTERVAL == 1

BUFFER_MAX_AGE == BUFFER_CLEANUP_INTERVAL + 1

\* The clock of the buffer specification stops here: late enough for a buffer
\* written at time 0 to be older than BUFFER_MAX_AGE.
MaxTime == BUFFER_MAX_AGE + 1

\* Chunks handed to append_to_buffer are at most this long: longer than the cap.
MaxChunkLen == MAX_BUFFER_SIZE + 1

\* The process may hold this many descriptors (RLIMIT_NOFILE, scaled): two
\* sessions' PTY pairs.
MaxFd == 4

\* GlobalWorkspaceService.MAX_TABS is 20 (global_workspace_service.py:25); the
\* model's workspace is full at this many tabs.
MAX_TABS == 2

\* MAX_PANES_PER_TAB is 4 in the code; the model scales it down.
MAX_PANES_PER_TAB == 2

\* uuid4() is called at most this often.
MaxUuid == 6

\* disconnect gives a session without clients grace_period=30 seconds
\* (socket_handlers.py:163); the model's clock ticks this often in that time.
GRACE_PERIOD == 2

\* At most this many closure tasks are pending at a time.
MaxTasks == 2

\* A PTY produces at most this many chunks of output.
MaxOut == 2

\* A PTY is written to at most this often.
MaxInput == 1

SessionIds == {"s1", "s2"}

\* The session ids clients name in Socket.IO requests.
RequestedIds == {"s1"}

Clients == {"c1", "c2"}

\* Window sizes a client may ask for: (rows, cols).  The last does not fit the
\* unsigned shorts of struct winsize.
Dims == {<<24, 80>>, <<40, 120>>, <<70000, 80>>}

\* The values struct.pack("H", v) accepts.
UShort == 0 .. 65535

Chars == {"a", "b"}

\* The chunk a read of a PTY yields.
ReadChunk == <<"a">>

(***************************************************************************)
(* Values                                                                  *)
(***************************************************************************)

\* Python's None.
None == "None"

RECURSIVE SeqsUpTo(_, _)
\* All sequences over S of length at most n.
SeqsUpTo(S, n) ==
    IF n = 0 THEN {<<>>}
    ELSE LET shorter == SeqsUpTo(S, n - 1)
         IN  shorter \cup {Append(q, x) : q \in {r \in shorter : Len(r) = n - 1}, x \in S}

Chunks == SeqsUpTo(Chars, MaxChunkLen)

\* Python's text[-n:] for n > 0: the trailing n characters, the whole text when
\* it is shorter.
LastChars(text, n) ==
    IF Len(text) <= n THEN text ELSE SubSeq(text, Len(text) - n + 1, Len(text))

\* dict.pop(key, None) / del dict[key]: the dict without the key.
DictRemove(d, keys) == [k \in DOMAIN d \ keys |-> d[k]]

\* dict[key] = value, whether or not the key is present.
DictPut(d, key, value) == [k \in DOMAIN d \cup {key} |-> IF k = key THEN value ELSE d[k]]

(***************************************************************************)
(* State                                                                   *)
(***************************************************************************)
VARIABLES
    \* BufferManager
    session_buffers,     \* _session_buffers: session id -> text
    buffer_timestamps,   \* _buffer_timestamps: session id -> time of last append
    last_cleanup,        \* _last_cleanup
    now,                 \* time.time()
    \* TerminalSessionService and the kernel objects PTYManager works on
    svc_sessions,        \* _sessions: session id -> TerminalSession
    read_tasks,          \* _read_tasks: the session ids with a read task
    open_fds,            \* the descriptors open in the process
    winsize,             \* master descriptor -> (rows, cols) of its PTY
    procs,               \* the child processes alive (pids)
    \* TerminalHandler
    fanout,              \* session id -> the output fan-out suspended in an emit
    got,                 \* (client, session) -> the chunks fanned out to the client
    \* GlobalWorkspaceService
    tabs,                \* _workspace["tabs"]
    activeTabId,         \* _workspace["activeTabId"]
    ws_name,             \* _workspace["name"]
    ws_layout,           \* _workspace["layout"]
    lastAccessed,        \* _workspace["lastAccessed"]
    user_roles,          \* _user_roles: socket id -> role (keys: _active_users)
    uuid_count,          \* how often uuid4() was called
    \* WorkspaceManagementService
    mgmt_tabs,           \* the "tabs" of the workspace it stores
    \* AsyncioTerminal and the Socket.IO handlers
    sessions,            \* AsyncioTerminal.sessions: session id -> terminal
    closed_sessions,     \* AsyncioTerminal.closed_sessions
    session_owners,      \* AsyncioTerminal.session_owners: session id -> user info
    timers,              \* the pending _delayed_terminal_closure tasks, by task id
    detached_for,        \* session id -> ticks since its last client went away
    rx,                  \* (client, session) -> what the client received of it
    pty_input,           \* session id -> how often its PTY was written to
    pty_spawned,         \* how many PTYs were started
    out_count,           \* session id -> how many chunks its PTY produced
    resuming,            \* client -> the session ids its suspended resume_workspace
                         \*           has yet to go through
    \* The call made last: its name, its arguments and what it returned.
    call

bufVars == <<session_buffers, buffer_timestamps, last_cleanup, now>>

svcVars == <<svc_sessions, read_tasks, open_fds, winsize, procs, fanout, got>>

wsVars == <<tabs, activeTabId, ws_name, ws_layout, lastAccessed, user_roles, uuid_count,
            mgmt_tabs>>

sockVars == <<sessions, closed_sessions, session_owners, timers, detached_for, rx,
              pty_input, pty_spawned, out_count, resuming>>

vars == <<bufVars, svcVars, wsVars, sockVars, call>>

NoCall == [op |-> "init"]

(***************************************************************************)
(* BufferManager                                                           *)
(***************************************************************************)

\* BufferManager.__init__
BufInit ==
    /\ session_buffers = <<>>
    /\ buffer_timestamps = <<>>
    /\ last_cleanup = 0
    /\ now = 0

\* append_to_buffer with the trim left out.
AppendNoTrim(old, data) == old \o data

\* append_to_buffer trimming at the wrong end: the leading characters are kept.
AppendKeepsHead(old, data) ==
    IF Len(old \o data) > MAX_BUFFER_SIZE
    THEN SubSeq(old \o data, 1, MAX_BUFFER_SIZE)
    ELSE old \o data

\* The text append_to_buffer stores for a session whose buffer holds `old`:
\* old + data, trimmed to its trailing MAX_BUFFER_SIZE characters.
AppendTrim(old, data) ==
    IF Len(old \o data) > MAX_BUFFER_SIZE
    THEN LastChars(old \o data, MAX_BUFFER_SIZE)
    ELSE old \o data

\* _cleanup_old_buffers, run at time t over timestamps ts: the session ids whose
\* buffers it removes (none when the cleanup interval has not elapsed).
CleanupVictims(ts, t) ==
    IF t - last_cleanup < BUFFER_CLEANUP_INTERVAL
    THEN {}
    ELSE {s \in DOMAIN ts : t - ts[s] > BUFFER_MAX_AGE}

\* BufferManager.append_to_buffer(session_id, data)
append_to_buffer(session_id, data) ==
    LET old   == IF session_id \in DOMAIN session_buffers
                 THEN session_buffers[session_id] ELSE <<>>
        bufs  == DictPut(session_buffers, session_id, AppendTrim(old, data))
        ts    == DictPut(buffer_timestamps, session_id, now)
        dead  == CleanupVictims(ts, now)
    IN  /\ session_buffers' = DictRemove(bufs, dead)
        /\ buffer_timestamps' = DictRemove(ts, dead)
        /\ last_cleanup' = IF now - last_cleanup < BUFFER_CLEANUP_INTERVAL
                           THEN last_cleanup ELSE now
        /\ UNCHANGED now

\* BufferManager.clear_buffer(session_id)
clear_buffer(session_id) ==
    /\ session_buffers' = DictRemove(session_buffers, {session_id})
    /\ buffer_timestamps' = DictRemove(buffer_timestamps, {session_id})
    /\ UNCHANGED <<last_cleanup, now>>

\* BufferManager.get_buffer(session_id): <<text>>, or <<>> for None.
get_buffer(session_id) ==
    IF session_id \in DOMAIN session_buffers THEN <<session_buffers[session_id]>> ELSE <<>>

\* BufferManager.get_buffer_size(session_id)
get_buffer_size(session_id) ==
    IF session_id \in DOMAIN session_buffers THEN Len(session_buffers[session_id]) ELSE 0

(***************************************************************************)
(* PTYManager and TerminalSessionService                                   *)
(***************************************************************************)

\* TerminalSessionService.__init__, in a process with no PTY open.
SvcInit ==
    /\ svc_sessions = <<>>
    /\ read_tasks = {}
    /\ fanout = <<>>
    /\ got = <<>>
    /\ open_fds = {}
    /\ winsize = <<>>
    /\ procs = {}

\* GlobalWorkspaceService.__init__: no terminal session exists when the
\* singleton is built, so _restore_from_sessions restores nothing.
WsInit ==
    /\ tabs = <<>>
    /\ activeTabId = None
    /\ ws_name = "Shared Workspace"
    /\ ws_layout = "default"
    /\ lastAccessed = 0
    /\ user_roles = <<>>
    /\ uuid_count = 0

\* WorkspaceManagementService after create_workspace: one workspace, no tab.
MgmtInit ==
    mgmt_tabs = <<>>

\* The server has just started: no terminal, no client.
SockInit ==
    /\ sessions = <<>>
    /\ closed_sessions = {}
    /\ session_owners = <<>>
    /\ timers = <<>>
    /\ detached_for = <<>>
    /\ rx = <<>>
    /\ pty_input = <<>>
    /\ pty_spawned = 0
    /\ out_count = <<>>
    /\ resuming = <<>>

Init ==
    /\ BufInit
    /\ SvcInit
    /\ WsInit
    /\ MgmtInit
    /\ SockInit
    /\ call = NoCall

\* The lowest descriptor (or pid) not in use, as the kernel hands them out.
LowestFree(used) == CHOOSE n \in 1 .. MaxFd + 2 : n \notin used /\ \A m \in 1 .. n - 1 : m \in used

\* PTYManager.set_terminal_size(fd, rows, cols): packs the sizes as unsigned
\* shorts and applies TIOCSWINSZ; a failure of either is logged and swallowed.
\* ioctl_ok is the kernel's answer.  Yields the window sizes afterwards and how
\* the call ended for its caller ("ok": it returned; it never raises).
set_terminal_size(ws, fd, rows, cols, ioctl_ok) ==
    IF rows \in UShort /\ cols \in UShort /\ ioctl_ok
    THEN [ws |-> DictPut(ws, fd, <<rows, cols>>), outcome |-> "ok"]
    ELSE [ws |-> ws, outcome |-> "ok"]

\* Whether the window-size system call of a resize to (rows, cols) failed.
SyscallFailed(rows, cols, ioctl_ok) == ~(rows \in UShort /\ cols \in UShort /\ ioctl_ok)

\* The call of create_session that raises OSError after create_pty has
\* returned: fcntl in make_non_blocking, os.fork in spawn_shell, or none.
CreateFaults == {None, "make_non_blocking", "spawn_shell"}

\* create_session without its test for an id that is already registered.
CreateSessionOverwrite(session_id, rows, cols, ioctl_ok, fault) ==
    LET master == LowestFree(open_fds)
        slave  == LowestFree(open_fds \cup {master})
        pid    == LowestFree(procs)
        sized  == set_terminal_size(DictPut(winsize, master, <<0, 0>>),
                                    master, rows, cols, ioctl_ok)
    IN  [raised |-> None,
         sessions |-> DictPut(svc_sessions, session_id,
               [closed |-> FALSE, master_fd |-> master, slave_fd |-> slave,
                pid |-> pid, rows |-> rows, cols |-> cols, client_sids |-> {},
                close_callback |-> FALSE, output_callback |-> FALSE]),
         tasks |-> read_tasks \cup {session_id},
         fds |-> open_fds \cup {master, slave},
         ws |-> sized.ws,
         procs |-> procs \cup {pid}]

\* TerminalSessionService.create_session(session_id, user_name, path, rows,
\* cols): the exception raised (None when it returned the session) and the
\* service's state afterwards.  There is no try around the calls that follow
\* create_pty, so what they raise leaves create_session at once.
create_session(session_id, rows, cols, ioctl_ok, fault) ==
    IF session_id \in DOMAIN svc_sessions
    THEN [raised |-> "ValueError", sessions |-> svc_sessions, tasks |-> read_tasks,
          fds |-> open_fds, ws |-> winsize, procs |-> procs]
    ELSE LET master == LowestFree(open_fds)
             slave  == LowestFree(open_fds \cup {master})
             pid    == LowestFree(procs)
             sized  == set_terminal_size(DictPut(winsize, master, <<0, 0>>),
                                         master, rows, cols, ioctl_ok)
         IN  IF fault # None
             THEN [raised |-> "OSError", sessions |-> svc_sessions, tasks |-> read_tasks,
                   fds |-> open_fds \cup {master, slave}, ws |-> sized.ws, procs |-> procs]
             ELSE
             [raised |-> None,
              sessions |-> DictPut(svc_sessions, session_id,
                    [closed |-> FALSE, master_fd |-> master, slave_fd |-> slave,
                     pid |-> pid, rows |-> rows, cols |-> cols, client_sids |-> {},
                     close_callback |-> FALSE, output_callback |-> FALSE]),
              tasks |-> read_tasks \cup {session_id},
              fds |-> open_fds \cup {master, slave},
              ws |-> sized.ws,
              procs |-> procs \cup {pid}]

\* close_session that marks the session closed but leaves it in the registry.
CloseSessionKeepsEntry(session_id) ==
    IF session_id \notin DOMAIN svc_sessions
    THEN UNCHANGED <<svcVars, bufVars>>
    ELSE LET session == svc_sessions[session_id]
         IN  /\ read_tasks' = read_tasks \ {session_id}
             /\ fanout' = DictRemove(fanout, {session_id})
             /\ UNCHANGED got
             /\ open_fds' = open_fds \ {session.master_fd, session.slave_fd}
             /\ winsize' = DictRemove(winsize, {session.master_fd})
             /\ procs' = procs \ {session.pid}
             /\ clear_buffer(session_id)
             /\ svc_sessions' = [svc_sessions EXCEPT ![session_id].closed = TRUE]

\* close_session that reclaims the PTY of every registered session.
CloseSessionReclaimsAll(session_id) ==
    IF session_id \notin DOMAIN svc_sessions
    THEN UNCHANGED <<svcVars, bufVars>>
    ELSE /\ read_tasks' = read_tasks \ {session_id}
         /\ fanout' = DictRemove(fanout, {session_id})
         /\ UNCHANGED got
         /\ open_fds' = {}
         /\ winsize' = <<>>
         /\ procs' = {}
         /\ clear_buffer(session_id)
         /\ svc_sessions' = DictRemove(svc_sessions, {session_id})

\* TerminalSessionService.close_session(session_id): returns at once for an id
\* that is not registered; otherwise cancels the read task, closes both
\* descriptors and kills the child (cleanup_pty), clears the buffer and removes
\* the registry entry, with no await before the entry is gone.
close_session(session_id) ==
    IF session_id \notin DOMAIN svc_sessions
    THEN UNCHANGED <<svcVars, bufVars>>
    ELSE LET session == svc_sessions[session_id]
         IN  /\ read_tasks' = read_tasks \ {session_id}
             /\ fanout' = DictRemove(fanout, {session_id})
             /\ UNCHANGED got
             /\ open_fds' = open_fds \ {session.master_fd, session.slave_fd}
             /\ winsize' = DictRemove(winsize, {session.master_fd})
             /\ procs' = procs \ {session.pid}
             /\ clear_buffer(session_id)
             /\ svc_sessions' = DictRemove(svc_sessions, {session_id})

\* TerminalHandler._handle_close(sid, session_id), the close callback, run on
\* the registry as close_session has left it: the clients it emits
\* terminal_closed to.  It looks the session up in the registry first.
handle_close(registry, session_id) ==
    IF session_id \notin DOMAIN registry THEN {} ELSE registry[session_id].client_sids

\* What a close_session(session_id) call does beyond the state it leaves: the
\* descriptors it hands to os.close, whether it awaits the close callback, and
\* whether the call before it was a close of the same id.
CloseCall(session_id, via) ==
    LET live == session_id \in DOMAIN svc_sessions
    IN  [op |-> "close_session", session_id |-> session_id, via |-> via,
         again |-> call.op = "close_session" /\ call.session_id = session_id,
         reclaimed |-> IF live
                       THEN {svc_sessions[session_id].master_fd,
                             svc_sessions[session_id].slave_fd}
                       ELSE {},
         callback |-> live /\ svc_sessions[session_id].close_callback,
         notified |-> IF live /\ svc_sessions[session_id].close_callback
                      THEN handle_close(DictRemove(svc_sessions, {session_id}), session_id)
                      ELSE {}]

\* TerminalSessionService.resize_session(session_id, rows, cols): the sessions
\* and window sizes afterwards and the value returned.  (A registered session
\* always has its master_fd: create_session sets it before it registers the
\* session, so the code's test for a missing descriptor never decides.)
resize_session(session_id, rows, cols, ioctl_ok) ==
    IF \/ session_id \notin DOMAIN svc_sessions
       \/ svc_sessions[session_id].closed
    THEN [sessions |-> svc_sessions, ws |-> winsize, ret |-> FALSE, syscall |-> "none"]
    ELSE LET sized == set_terminal_size(winsize, svc_sessions[session_id].master_fd,
                                        rows, cols, ioctl_ok)
         IN  IF sized.outcome = "ok"
             THEN [sessions |-> [svc_sessions EXCEPT ![session_id].rows = rows,
                                                     ![session_id].cols = cols],
                   ws |-> sized.ws, ret |-> TRUE,
                   syscall |-> IF SyscallFailed(rows, cols, ioctl_ok)
                               THEN "failed" ELSE "ok"]
             ELSE [sessions |-> svc_sessions, ws |-> sized.ws, ret |-> FALSE,
                   syscall |-> "failed"]

SvcCreate ==
    \E s \in SessionIds, d \in Dims, ioctl_ok \in BOOLEAN, fault \in CreateFaults :
        LET r == create_session(s, d[1], d[2], ioctl_ok, fault)
        IN  /\ r.fds \subseteq 1 .. MaxFd
            /\ svc_sessions' = r.sessions
            /\ read_tasks' = r.tasks
            /\ UNCHANGED <<fanout, got>>
            /\ open_fds' = r.fds
            /\ winsize' = r.ws
            /\ procs' = r.procs
            /\ call' = [op |-> "create_session", session_id |-> s, raised |-> r.raised,
                        fault |-> IF r.raised = "OSError" THEN fault ELSE None]
            /\ UNCHANGED <<bufVars, wsVars, sockVars>>

\* An explicit close_session(s), for a registered id or not.
SvcClose ==
    \E s \in SessionIds :
        /\ close_session(s)
        /\ call' = CloseCall(s, "explicit")
        /\ UNCHANGED <<wsVars, sockVars>>

\* add_client(session_id, client_sid)
SvcAddClient ==
    \E s \in RequestedIds \cap DOMAIN svc_sessions, c \in Clients :
        /\ svc_sessions' = [svc_sessions EXCEPT ![s].client_sids = @ \cup {c}]
        /\ call' = [op |-> "add_client", session_id |-> s, sid |-> c]
        /\ UNCHANGED <<read_tasks, open_fds, winsize, procs, fanout, got, bufVars, wsVars,
                       sockVars>>

\* set_close_callback(session_id, callback)
SvcSetCloseCallback ==
    \E s \in RequestedIds \cap DOMAIN svc_sessions :
        /\ svc_sessions' = [svc_sessions EXCEPT ![s].close_callback = TRUE]
        /\ call' = [op |-> "set_close_callback", session_id |-> s]
        /\ UNCHANGED <<read_tasks, open_fds, winsize, procs, fanout, got, bufVars, wsVars,
                       sockVars>>

\* One round of _read_output_loop that read output from the PTY of s: the
\* chunk is appended to the buffer of s.
SvcReadOutput ==
    \E s \in read_tasks \ DOMAIN fanout :
        /\ ~svc_sessions[s].closed
        /\ append_to_buffer(s, ReadChunk)
        /\ call' = [op |-> "read_output", session_id |-> s]
        /\ UNCHANGED <<svcVars, wsVars, sockVars>>

\* A read of the PTY that brings no data: b"" (EOF), OSError with errno EAGAIN,
\* or any other error.
ReadResults == {"eof", "EAGAIN", "error"}

\* A read loop that gives up on whatever the read brings.
ReadBreaksAlways(result) == TRUE

\* _read_output_loop: whether the loop is left after a read with this result.
\* EAGAIN sleeps 10 ms and goes round again.
ReadBreaks(result) == result # "EAGAIN"

\* _read_output_loop of s gets no data from its read.  It leaves its loop on
\* EOF or on an error other than EAGAIN and then closes its session unless the
\* session is marked closed already.  The loop of a session that was closed
\* meanwhile holds a session object whose closed flag is set, so it ends
\* without another close.
SvcReadExit ==
    \E s \in SessionIds, result \in ReadResults :
        /\ s \notin DOMAIN fanout
        /\ IF s \in read_tasks /\ ~svc_sessions[s].closed
           THEN IF ReadBreaks(result)
                THEN /\ close_session(s)
                     /\ call' = CloseCall(s, result)
                ELSE /\ UNCHANGED <<svcVars, bufVars>>
                     /\ call' = [op |-> "read_retry", session_id |-> s, via |-> result]
           ELSE /\ UNCHANGED <<svcVars, bufVars>>
                /\ call' = [op |-> "read_loop_end", session_id |-> s, via |-> result]
        /\ UNCHANGED <<wsVars, sockVars>>

\* The names bound at module level of terminal_session_service.py by its
\* import statements and its assignments; _read_output_loop imports os and
\* errno into its own scope only.
ModuleGlobals ==
    {"asyncio", "logging", "Dict", "Optional", "Set", "Callable", "datetime",
     "BaseTerminal", "PTYManager", "BufferManager", "log"}

\* write_to_session(session_id, data): the value returned, the bytes written
\* to the master fd and whether last_activity was set.  create_session gives
\* every session a master fd.  The body of the try block raises NameError at
\* a name that is not bound, and the handler of Exception returns False.
write_to_session(session_id, data) ==
    IF session_id \notin DOMAIN svc_sessions \/ svc_sessions[session_id].closed
    THEN [ret |-> FALSE, written |-> <<>>, touched |-> FALSE]
    ELSE IF "os" \notin ModuleGlobals
    THEN [ret |-> FALSE, written |-> <<>>, touched |-> FALSE]
    ELSE [ret |-> TRUE, written |-> data, touched |-> TRUE]

SvcWrite ==
    \E s \in SessionIds :
        LET r == write_to_session(s, ReadChunk)
        IN  /\ call' = [op |-> "write_to_session", session_id |-> s, data |-> ReadChunk,
                        ret |-> r.ret, written |-> r.written, touched |-> r.touched]
            /\ UNCHANGED <<svcVars, bufVars, wsVars, sockVars>>

SvcResize ==
    \E s \in SessionIds, d \in Dims, ioctl_ok \in BOOLEAN :
        LET r == resize_session(s, d[1], d[2], ioctl_ok)
        IN  /\ svc_sessions' = r.sessions
            /\ winsize' = r.ws
            /\ call' = [op |-> "resize_session", session_id |-> s, rows |-> d[1],
                        cols |-> d[2], syscall |-> r.syscall, ret |-> r.ret]
            /\ UNCHANGED <<read_tasks, open_fds, procs, fanout, got, bufVars, wsVars,
                           sockVars>>

SvcNext ==
    \/ SvcCreate
    \/ SvcClose
    \/ SvcResize
    \/ SvcAddClient
    \/ SvcSetCloseCallback
    \/ SvcReadOutput
    \/ SvcReadExit

SpecSvc == Init /\ [][SvcNext]_vars

(***************************************************************************)
(* TerminalHandler                                                         *)
(*                                                                         *)
(* The endpoint on top of TerminalSessionService.  No socket registers a   *)
(* workspace token, so _find_existing_session finds nothing.  An emit is   *)
(* awaited and may suspend its caller; the chunks read from a PTY are      *)
(* numbered 1, 2, ... per session.                                         *)
(***************************************************************************)

\* The chunks fanned out to client sid of session_id so far.
GotOf(sid, session_id) ==
    IF <<sid, session_id>> \in DOMAIN got THEN got[<<sid, session_id>>] ELSE <<>>

\* handle_create_terminal(sid, data) with data["session"] = session_id: a
\* registered session gets the client added and its buffer is sent to the
\* client; otherwise the session is created, the client added and both
\* callbacks are set.
HdlCreateTerminal ==
    \E sid \in Clients, session_id \in RequestedIds :
        IF session_id \in DOMAIN svc_sessions
        THEN /\ svc_sessions' = [svc_sessions EXCEPT ![session_id].client_sids = @ \cup {sid}]
             /\ call' = [op |-> "handle_create_terminal", sid |-> sid,
                         session_id |-> session_id, status |-> "resumed",
                         buffer_content |-> get_buffer(session_id)]
             /\ UNCHANGED <<read_tasks, open_fds, winsize, procs, fanout, got>>
             /\ UNCHANGED <<bufVars, wsVars, sockVars>>
        ELSE LET r == create_session(session_id, 24, 80, TRUE, None)
             IN  /\ r.fds \subseteq 1 .. MaxFd
                 /\ svc_sessions' = [r.sessions EXCEPT ![session_id].client_sids = {sid},
                                                       ![session_id].output_callback = TRUE,
                                                       ![session_id].close_callback = TRUE]
                 /\ read_tasks' = r.tasks
                 /\ open_fds' = r.fds
                 /\ winsize' = r.ws
                 /\ procs' = r.procs
                 /\ call' = [op |-> "handle_create_terminal", sid |-> sid,
                             session_id |-> session_id, status |-> "created",
                             buffer_content |-> <<>>]
                 /\ UNCHANGED <<fanout, got, bufVars, wsVars, sockVars>>

\* handle_disconnect(sid): the client leaves every session it is attached to;
\* a session left without clients is not scheduled for anything.
HdlDisconnect ==
    \E sid \in Clients :
        /\ svc_sessions' = [s \in DOMAIN svc_sessions |->
                               [svc_sessions[s] EXCEPT !.client_sids = @ \ {sid}]]
        /\ call' = [op |-> "handle_disconnect", sid |-> sid,
                    left |-> {s \in DOMAIN svc_sessions : sid \in svc_sessions[s].client_sids}]
        /\ UNCHANGED <<read_tasks, open_fds, winsize, procs, fanout, got>>
        /\ UNCHANGED <<bufVars, wsVars, sockVars>>

\* _handle_output emitting to one client only.
FanoutFirstOnly(session_id) ==
    {CHOOSE c \in svc_sessions[session_id].client_sids : TRUE}

\* _handle_output(sid, session_id, data): the clients its loop goes through,
\* `for client_sid in session.client_sids`.
FanoutTargets(session_id) == svc_sessions[session_id].client_sids

\* One round of _read_output_loop of a handler-made session that read chunk
\* n + 1: the chunk goes to the buffer, then _handle_output starts to iterate
\* over session.client_sids and awaits the emit to the first client.
HdlReadOutput ==
    \E s \in read_tasks \ DOMAIN fanout :
        LET n       == IF s \in DOMAIN out_count THEN out_count[s] ELSE 0
            clients == svc_sessions[s].client_sids
        IN  /\ ~svc_sessions[s].closed
            /\ n < MaxOut
            /\ append_to_buffer(s, <<n + 1>>)
            /\ out_count' = DictPut(out_count, s, n + 1)
            /\ UNCHANGED resuming
            /\ IF svc_sessions[s].output_callback /\ clients # {}
               THEN \E c \in FanoutTargets(s) :
                      /\ got' = DictPut(got, <<c, s>>, Append(GotOf(c, s), n + 1))
                      /\ fanout' = DictPut(fanout, s,
                             [chunk |-> n + 1, todo |-> FanoutTargets(s) \ {c},
                              done |-> {c}, size |-> Cardinality(clients),
                              at_read |-> clients])
               ELSE UNCHANGED <<fanout, got>>
            /\ call' = [op |-> "read_and_fan_out", session_id |-> s, chunk |-> n + 1]
            /\ UNCHANGED <<svc_sessions, read_tasks, open_fds, winsize, procs, wsVars>>
            /\ UNCHANGED <<sessions, closed_sessions, session_owners, timers, detached_for,
                           rx, pty_input, pty_spawned>>

\* The emit _handle_output awaited is done and the iteration over
\* session.client_sids goes on.  A set that changed its size since the
\* iteration began makes the iterator raise RuntimeError; the read loop takes
\* it for a read failure, leaves its loop and closes the session.  In a set of
\* the same size the iterator comes to every client it has not visited that
\* is still there, and it may or may not come to a client added meanwhile.
HdlFanoutResume ==
    \E s \in DOMAIN fanout :
        LET f       == fanout[s]
            clients == svc_sessions[s].client_sids
            late    == clients \ (f.at_read \cup f.done)
        IN  IF Cardinality(clients) # f.size
            THEN /\ close_session(s)
                 /\ call' = CloseCall(s, "RuntimeError")
                 /\ UNCHANGED <<wsVars, sockVars>>
            ELSE \/ /\ f.todo \cap clients = {}
                    /\ fanout' = DictRemove(fanout, {s})
                    /\ call' = [op |-> "fan_out_done", session_id |-> s, chunk |-> f.chunk]
                    /\ UNCHANGED <<svc_sessions, read_tasks, open_fds, winsize, procs, got>>
                    /\ UNCHANGED <<bufVars, wsVars, sockVars>>
                 \/ \E c \in (f.todo \cap clients) \cup late :
                    /\ got' = DictPut(got, <<c, s>>, Append(GotOf(c, s), f.chunk))
                    /\ fanout' = [fanout EXCEPT ![s].todo = @ \ {c},
                                                ![s].done = @ \cup {c}]
                    /\ call' = [op |-> "fan_out", session_id |-> s, chunk |-> f.chunk]
                    /\ UNCHANGED <<svc_sessions, read_tasks, open_fds, winsize, procs>>
                    /\ UNCHANGED <<bufVars, wsVars, sockVars>>

\* handle_terminal_resize(sid, data) with data = {session, rows, cols}: the
\* session is resized for whoever asks; nothing is emitted.
HdlResize ==
    \E sid \in Clients, session_id \in RequestedIds, d \in {<<40, 120>>} :
        LET r == resize_session(session_id, d[1], d[2], TRUE)
        IN  /\ svc_sessions' = r.sessions
            /\ winsize' = r.ws
            /\ call' = [op |-> "handle_terminal_resize", sid |-> sid,
                        session_id |-> session_id, rows |-> d[1], cols |-> d[2],
                        ret |-> r.ret, reply |-> <<>>]
            /\ UNCHANGED <<read_tasks, open_fds, procs, fanout, got, bufVars, wsVars,
                           sockVars>>

(***************************************************************************)
(* GlobalWorkspaceService                                                  *)
(***************************************************************************)

TabTypes == {"terminal", "ai-agent"}

\* f"tab_{uuid4().hex[:8]}" and f"pane_{uuid4().hex[:8]}" for the n-th uuid4().
TabId(n) == "tab_" \o ToString(n)

PaneId(n) == "pane_" \o ToString(n)

\* The pane dict create_tab builds: no session yet, no "status" key.
NewPane(pane_id) == [id |-> pane_id, sessionId |-> None, status |-> None]

\* for existing_tab in tabs: existing_tab["isActive"] = False
Deactivated(ts) == [i \in 1 .. Len(ts) |-> [ts[i] EXCEPT !.isActive = FALSE]]

\* The sequence without its i-th element (list.pop(i)).
RemoveAt(ts, i) == SubSeq(ts, 1, i - 1) \o SubSeq(ts, i + 1, Len(ts))

\* create_tab without the tab limit.
CreateTabNoLimit(tab_type) ==
    LET tab_id == TabId(uuid_count + 1)
        panes  == IF tab_type = "terminal" THEN <<NewPane(PaneId(uuid_count + 2))>> ELSE <<>>
        tab    == [id |-> tab_id, type |-> tab_type, isActive |-> TRUE, panes |-> panes]
    IN  [tabs |-> Append(Deactivated(tabs), tab), activeTabId |-> tab_id,
         lastAccessed |-> now,
         uuid_count |-> uuid_count + (IF tab_type = "terminal" THEN 2 ELSE 1),
         ret |-> <<tab>>]

\* create_tab that gives a terminal tab no default pane.
CreateTabNoPane(tab_type) ==
    IF Len(tabs) >= MAX_TABS
    THEN [tabs |-> tabs, activeTabId |-> activeTabId, lastAccessed |-> lastAccessed,
          uuid_count |-> uuid_count, ret |-> <<>>]
    ELSE LET tab == [id |-> TabId(uuid_count + 1), type |-> tab_type,
                     isActive |-> TRUE, panes |-> <<>>]
         IN  [tabs |-> Append(Deactivated(tabs), tab), activeTabId |-> tab.id,
              lastAccessed |-> now, uuid_count |-> uuid_count + 1, ret |-> <<tab>>]

\* GlobalWorkspaceService.create_tab(title, tab_type, sub_type): the workspace
\* afterwards and the value returned, an Optional: <<tab>>, or <<>> for the
\* None returned at the tab limit.
create_tab(tab_type) ==
    IF Len(tabs) >= MAX_TABS
    THEN [tabs |-> tabs, activeTabId |-> activeTabId, lastAccessed |-> lastAccessed,
          uuid_count |-> uuid_count, ret |-> <<>>]
    ELSE LET tab_id == TabId(uuid_count + 1)
             panes  == IF tab_type = "terminal"
                       THEN <<NewPane(PaneId(uuid_count + 2))>> ELSE <<>>
             tab    == [id |-> tab_id, type |-> tab_type, isActive |-> TRUE,
                        panes |-> panes]
         IN  [tabs |-> Append(Deactivated(tabs), tab), activeTabId |-> tab_id,
              lastAccessed |-> now,
              uuid_count |-> uuid_count + (IF tab_type = "terminal" THEN 2 ELSE 1),
              ret |-> <<tab>>]

\* The positions (i, j) of the panes with id pane_id in a tab with id tab_id.
PaneMatches(ts, tab_id, pane_id) ==
    {<<i, j>> \in (1 .. Len(ts)) \X (1 .. 4) :
        /\ ts[i].id = tab_id
        /\ j <= Len(ts[i].panes)
        /\ ts[i].panes[j].id = pane_id}

\* The first of them in the order the loops of update_pane_session visit them.
FirstMatch(ms) ==
    CHOOSE m \in ms : \A o \in ms : m[1] < o[1] \/ (m[1] = o[1] /\ m[2] <= o[2])

\* GlobalWorkspaceService.update_pane_session(tab_id, pane_id, session_id)
update_pane_session(ts, tab_id, pane_id, session_id) ==
    LET ms == PaneMatches(ts, tab_id, pane_id)
    IN  IF ms = {}
        THEN [tabs |-> ts, ret |-> FALSE]
        ELSE LET m == FirstMatch(ms)
             IN  [tabs |-> [ts EXCEPT ![m[1]].panes[m[2]].sessionId = session_id,
                                      ![m[1]].panes[m[2]].status = "connected"],
                  ret |-> TRUE]

\* close_tab that removes every tab, whatever its id.
CloseTabRemovesAll(tab_id) ==
    [tabs |-> <<>>, activeTabId |-> None, lastAccessed |-> now, ret |-> TRUE]

\* GlobalWorkspaceService.close_tab(tab_id)
close_tab(tab_id) ==
    LET found == {i \in 1 .. Len(tabs) : tabs[i].id = tab_id}
    IN  IF found = {}
        THEN [tabs |-> tabs, activeTabId |-> activeTabId,
              lastAccessed |-> lastAccessed, ret |-> FALSE]
        ELSE LET tab_index == CHOOSE i \in found : \A k \in found : i <= k
                 rest      == RemoveAt(tabs, tab_index)
             IN  [tabs |-> rest,
                  activeTabId |-> IF activeTabId = tab_id
                                  THEN (IF rest # <<>> THEN rest[1].id ELSE None)
                                  ELSE activeTabId,
                  lastAccessed |-> now, ret |-> TRUE]

\* update_workspace: existing_sessions, the session id of every bound pane by
\* pane id (a later pane with the same id wins).
ExistingSessions(ts) ==
    LET bound == {<<i, j>> \in (1 .. Len(ts)) \X (1 .. 4) :
                     j <= Len(ts[i].panes) /\ ts[i].panes[j].sessionId # None}
        ids   == {ts[m[1]].panes[m[2]].id : m \in bound}
        last(pid) == CHOOSE m \in bound :
                        /\ ts[m[1]].panes[m[2]].id = pid
                        /\ \A o \in bound : ts[o[1]].panes[o[2]].id = pid =>
                               o[1] < m[1] \/ (o[1] = m[1] /\ o[2] <= m[2])
    IN  [pid \in ids |-> ts[last(pid)[1]].panes[last(pid)[2]].sessionId]

\* update_workspace: the client's tabs with the known session ids put back.
RestoreSessions(new_tabs, existing) ==
    [i \in 1 .. Len(new_tabs) |->
        [new_tabs[i] EXCEPT !.panes =
            [j \in 1 .. Len(new_tabs[i].panes) |->
                IF new_tabs[i].panes[j].id \in DOMAIN existing
                THEN [new_tabs[i].panes[j] EXCEPT !.sessionId =
                          existing[new_tabs[i].panes[j].id]]
                ELSE new_tabs[i].panes[j]]]]

\* GlobalWorkspaceService.update_workspace(workspace_data): the workspace
\* afterwards and how the call ended ("ValueError" when it raised).
\* data.keys are the keys of workspace_data ("name" in workspace_data, ...).
update_workspace(data) ==
    LET name1 == IF "name" \in data.keys THEN data.name ELSE ws_name
    IN  IF "tabs" \in data.keys /\ Len(data.tabs) > MAX_TABS
        THEN [name |-> name1, tabs |-> tabs, activeTabId |-> activeTabId,
              layout |-> ws_layout, lastAccessed |-> lastAccessed, ret |-> "ValueError"]
        ELSE [name |-> name1,
              tabs |-> IF "tabs" \in data.keys
                       THEN RestoreSessions(data.tabs, ExistingSessions(tabs))
                       ELSE tabs,
              activeTabId |-> IF "activeTabId" \in data.keys
                              THEN data.activeTabId ELSE activeTabId,
              layout |-> IF "layout" \in data.keys THEN data.layout ELSE ws_layout,
              lastAccessed |-> now, ret |-> "ok"]

\* can_user_modify that lets every role modify.
CanModifyAlways(socket_id) == TRUE

\* GlobalWorkspaceService.can_user_modify(socket_id)
can_user_modify(socket_id) ==
    (IF socket_id \in DOMAIN user_roles THEN user_roles[socket_id] ELSE "User") # "Viewer"

\* A tab a client made up itself.
ClientTab ==
    [id |-> "tab_x", type |-> "terminal", isActive |-> TRUE,
     panes |-> <<NewPane("pane_x")>>]

\* The tab lists a client sends: none, its own tab twice, or the workspace's
\* tabs with the client's tab added (one more than the limit when the
\* workspace is full).
ClientTabLists == {<<>>, <<ClientTab, ClientTab>>, tabs \o <<ClientTab>>}

\* The workspace_data a client sends: a new name with a tab list, or an active
\* tab id with a layout.
WorkspaceData ==
    {[keys |-> {"name", "tabs"}, name |-> "renamed", tabs |-> l,
      activeTabId |-> None, layout |-> "grid"] : l \in ClientTabLists}
    \cup {[keys |-> {"activeTabId", "layout"}, name |-> "renamed", tabs |-> <<>>,
           activeTabId |-> a, layout |-> "grid"] : a \in {None, "tab_x"}}

\* The session ids bound to the panes of the tabs with id tab_id.
BoundSessions(ts, tab_id) ==
    {ts[m[1]].panes[m[2]].sessionId :
        m \in {x \in (1 .. Len(ts)) \X (1 .. 4) :
                  /\ ts[x[1]].id = tab_id
                  /\ x[2] <= Len(ts[x[1]].panes)
                  /\ ts[x[1]].panes[x[2]].sessionId # None}}

WsCreateTab ==
    \E tab_type \in TabTypes :
        LET r == create_tab(tab_type)
        IN  /\ r.uuid_count <= MaxUuid
            /\ tabs' = r.tabs
            /\ activeTabId' = r.activeTabId
            /\ lastAccessed' = r.lastAccessed
            /\ uuid_count' = r.uuid_count
            /\ call' = [op |-> "create_tab", tab_type |-> tab_type, ret |-> r.ret]
            /\ UNCHANGED <<mgmt_tabs, ws_name, ws_layout, user_roles, bufVars, svcVars, sockVars>>

WsCloseTab ==
    \E tab_id \in {tabs[i].id : i \in 1 .. Len(tabs)} \cup {"tab_x"} :
        LET r == close_tab(tab_id)
        IN  /\ tabs' = r.tabs
            /\ activeTabId' = r.activeTabId
            /\ lastAccessed' = r.lastAccessed
            /\ call' = [op |-> "close_tab", tab_id |-> tab_id, ret |-> r.ret,
                        bound |-> BoundSessions(tabs, tab_id)]
            /\ UNCHANGED <<mgmt_tabs, ws_name, ws_layout, user_roles, uuid_count, bufVars, svcVars, sockVars>>

WsUpdatePaneSession ==
    \E tab_id \in {tabs[i].id : i \in 1 .. Len(tabs)} \cup {"tab_x"},
       pane_id \in {tabs[i].panes[1].id : i \in {k \in 1 .. Len(tabs) : tabs[k].panes # <<>>}}
                   \cup {"pane_x"},
       s \in SessionIds :
        LET r == update_pane_session(tabs, tab_id, pane_id, s)
        IN  /\ tabs' = r.tabs
            /\ call' = [op |-> "update_pane_session", tab_id |-> tab_id,
                        pane_id |-> pane_id, session_id |-> s, ret |-> r.ret]
            /\ UNCHANGED <<mgmt_tabs, activeTabId, ws_name, ws_layout, lastAccessed, user_roles,
                           uuid_count, bufVars, svcVars, sockVars>>

WsUpdate ==
    \E data \in WorkspaceData :
        LET r == update_workspace(data)
        IN  /\ tabs' = r.tabs
            /\ activeTabId' = r.activeTabId
            /\ ws_name' = r.name
            /\ ws_layout' = r.layout
            /\ lastAccessed' = r.lastAccessed
            /\ call' = [op |-> "update_workspace", data |-> data, ret |-> r.ret]
            /\ UNCHANGED <<mgmt_tabs, user_roles, uuid_count, bufVars, svcVars, sockVars>>

WsNext == WsCreateTab \/ WsCloseTab \/ WsUpdatePaneSession \/ WsUpdate

SpecWs == Init /\ [][WsNext]_vars

\* time.time() advances between calls.
BufTick ==
    /\ now < MaxTime
    /\ now' = now + 1
    /\ UNCHANGED <<session_buffers, buffer_timestamps, last_cleanup>>
    /\ call' = [op |-> "tick"]
    /\ UNCHANGED <<svcVars, wsVars, sockVars>>

BufAppend ==
    \E s \in SessionIds, data \in Chunks :
        /\ append_to_buffer(s, data)
        /\ call' = [op |-> "append_to_buffer", session_id |-> s, data |-> data]
        /\ UNCHANGED <<svcVars, wsVars, sockVars>>

BufClear ==
    \E s \in SessionIds :
        /\ clear_buffer(s)
        /\ call' = [op |-> "clear_buffer", session_id |-> s]
        /\ UNCHANGED <<svcVars, wsVars, sockVars>>

BufNext == BufAppend \/ BufClear \/ BufTick

SpecBuf == Init /\ [][BufNext]_vars

(***************************************************************************)
(* WorkspaceManagementService                                              *)
(*                                                                         *)
(* One workspace, made by create_workspace.  Tab ids are built from the    *)
(* clock alone, so two tabs made in the same millisecond share their id;   *)
(* get_tab yields the first tab with the id.                               *)
(***************************************************************************)

\* f"tab-{ms}" and f"pane-{ms}-{uuid4().hex[:9]}" at time ms, n-th uuid4().
MgmtTabId(ms) == "tab-" \o ToString(ms)

MgmtPaneId(ms, n) == "pane-" \o ToString(ms) \o "-" \o ToString(n)

\* WorkspaceManagementService.create_tab(token, workspace_id, title, tab_type).
\* The service sets no limit on the tabs; the model stops at MAX_TABS.
MgmtCreateTab ==
    \E tab_type \in TabTypes :
        LET terminal == tab_type = "terminal"
            panes == IF terminal
                     THEN <<[id |-> MgmtPaneId(now, uuid_count + 1), sessionId |-> None,
                             isActive |-> TRUE, status |-> "disconnected",
                             position |-> [x |-> 0, width |-> 100]]>>
                     ELSE <<>>
            tab == [id |-> MgmtTabId(now), type |-> tab_type, isActive |-> TRUE,
                    panes |-> panes, layout |-> "single"]
        IN  /\ Len(mgmt_tabs) < MAX_TABS
            /\ terminal => uuid_count < MaxUuid
            /\ mgmt_tabs' = Append(Deactivated(mgmt_tabs), tab)
            /\ uuid_count' = IF terminal THEN uuid_count + 1 ELSE uuid_count
            /\ call' = [op |-> "mgmt_create_tab", ret |-> <<tab>>]
            /\ UNCHANGED <<tabs, activeTabId, ws_name, ws_layout, lastAccessed, user_roles>>
            /\ UNCHANGED <<bufVars, svcVars, sockVars>>

\* WorkspaceManagementService.create_pane(token, workspace_id, tab_id, title):
\* None when no tab has the id; otherwise a pane is appended to the first tab
\* with the id, whatever the number of panes the tab has.
create_pane ==
    \E tab_id \in {MgmtTabId(ms) : ms \in 0 .. MaxTime} :
        LET found == {i \in 1 .. Len(mgmt_tabs) : mgmt_tabs[i].id = tab_id}
        IN  IF found = {}
            THEN /\ call' = [op |-> "create_pane", tab_id |-> tab_id, ret |-> <<>>]
                 /\ UNCHANGED <<wsVars, bufVars, svcVars, sockVars>>
            ELSE LET i    == CHOOSE k \in found : \A o \in found : k <= o
                     old  == mgmt_tabs[i].panes
                     pane == [id |-> MgmtPaneId(now, uuid_count + 1), sessionId |-> None,
                              isActive |-> FALSE, status |-> "disconnected",
                              position |-> [x |-> IF Len(old) = 1 THEN 50 ELSE 0,
                                            width |-> 50]]
                     kept == IF Len(old) = 1
                             THEN <<[old[1] EXCEPT !.position.width = 50]>>
                             ELSE old
                 IN  /\ uuid_count < MaxUuid
                     /\ mgmt_tabs' = [mgmt_tabs EXCEPT ![i].panes = Append(kept, pane),
                                                       ![i].layout = "horizontal"]
                     /\ uuid_count' = uuid_count + 1
                     /\ call' = [op |-> "create_pane", tab_id |-> tab_id, ret |-> <<pane>>]
                     /\ UNCHANGED <<tabs, activeTabId, ws_name, ws_layout, lastAccessed,
                                    user_roles>>
                     /\ UNCHANGED <<bufVars, svcVars, sockVars>>

MgmtNext == MgmtCreateTab \/ create_pane \/ BufTick

SpecMgmt == Init /\ [][MgmtNext]_vars

(***************************************************************************)
(* AsyncioTerminal and the Socket.IO handlers                              *)
(*                                                                         *)
(* The handlers are functions of a record st of the state they work on;    *)
(* st.reply collects the events they emit to the calling client, in order. *)
(* The code between two points where a handler really suspends runs        *)
(* without interleaving (one asyncio event loop).                          *)
(***************************************************************************)

\* What get_user_info_from_environ yields for the request at hand.
UserInfos ==
    {[remote_user |-> "alice", remote_addr |-> "10.0.0.1"],
     [remote_user |-> None, remote_addr |-> "10.0.0.2"]}

TaskIds == 1 .. MaxTasks

\* The id of the next asyncio task.
FreeTask(used) == CHOOSE n \in 1 .. MaxTasks + 2 : n \notin used /\ \A m \in 1 .. n - 1 : m \in used

SockState ==
    [sessions |-> sessions, closed_sessions |-> closed_sessions,
     session_owners |-> session_owners, timers |-> timers, rx |-> rx,
     pty_input |-> pty_input, pty_spawned |-> pty_spawned, reply |-> <<>>]

\* An event emitted to one client.  is_owner is "True", "False" or None
\* when the event carries no such key.
Ev(event, status, is_owner) == [event |-> event, status |-> status, is_owner |-> is_owner]

\* sio_instance.emit(event, ..., room=sid) to the calling client.
Emit(st, ev) == [st EXCEPT !.reply = Append(@, ev)]

\* The chunks a text holds.
ChunksOf(text) == {text[i] : i \in 1 .. Len(text)}

\* What a client has received of a session since it last asked for the
\* history: the chunks delivered live, and how the history stood to them
\* ("none": the client was attached without send_terminal_history, "first":
\* the history came before any live output, "late": it came after live output,
\* "dup": it held a chunk already delivered live).
NoRx == [live |-> {}, replay |-> "none"]

\* A client that got the history first and asks for it again starts over.
Synced == [live |-> {}, replay |-> "first"]

RxOf(rxv, sid, session_id) ==
    IF <<sid, session_id>> \in DOMAIN rxv THEN rxv[<<sid, session_id>>] ELSE NoRx

\* send_terminal_history has sent the client the buffer, text.
RxReplay(r, text) ==
    IF r.replay = "first" THEN Synced
    ELSE [r EXCEPT !.replay = IF ChunksOf(text) \cap r.live # {} \/ @ = "dup" THEN "dup"
                              ELSE IF r.live # {} \/ @ = "late" THEN "late"
                              ELSE "first"]

\* AsyncioTerminal.get_session_buffer_content(session_id)
get_session_buffer_content(session_id) ==
    IF session_id \in DOMAIN session_buffers THEN session_buffers[session_id] ELSE <<>>

\* check_session_ownership(session_id, current_user_info)
check_session_ownership(st, session_id, current_user_info) ==
    IF session_id \notin DOMAIN st.session_owners THEN FALSE
    ELSE LET owner_info == st.session_owners[session_id]
         IN  \/ /\ current_user_info.remote_user # None
                /\ owner_info.remote_user # None
                /\ current_user_info.remote_user = owner_info.remote_user
             \/ /\ current_user_info.remote_addr # None
                /\ owner_info.remote_addr # None
                /\ current_user_info.remote_addr = owner_info.remote_addr

\* The identities of requests: an authenticated principal or none, a network
\* address or none (REMOTE_ADDR and X-Remote-User as the environ has them).
Identities ==
    [remote_user : {None, "alice", "bob"}, remote_addr : {None, "10.0.0.1", "10.0.0.2"}]

\* A terminal is created for session_id by a request with identity owner_info:
\* its owner is recorded.
OwnRecord ==
    \E session_id \in SessionIds, owner_info \in Identities :
        /\ session_owners' = DictPut(session_owners, session_id, owner_info)
        /\ call' = [op |-> "record_owner", session_id |-> session_id]
        /\ UNCHANGED <<sessions, closed_sessions, timers, detached_for, rx, pty_input,
                       pty_spawned, out_count, resuming, bufVars, svcVars, wsVars>>

\* check_session_ownership(session_id, current_user_info) is asked.
OwnCheck ==
    \E session_id \in SessionIds, current_user_info \in Identities :
        /\ call' = [op |-> "check_session_ownership", session_id |-> session_id,
                    user_info |-> current_user_info,
                    ret |-> check_session_ownership(SockState, session_id,
                                                    current_user_info)]
        /\ UNCHANGED <<sockVars, bufVars, svcVars, wsVars>>

OwnNext == OwnRecord \/ OwnCheck

SpecOwn == Init /\ [][OwnNext]_vars

\* str(bool)
PyBool(b) == IF b THEN "True" ELSE "False"

\* AsyncioTerminal(...) and start_pty(): a terminal with a PTY of its own,
\* registered under its id, its owner recorded.
NewTerminal(st, session_id, owner_info) ==
    [st EXCEPT !.sessions = DictPut(@, session_id,
                                [closed |-> FALSE, client_sids |-> {},
                                 closure_task |-> 0, pty |-> st.pty_spawned + 1]),
               !.session_owners = DictPut(@, session_id, owner_info),
               !.pty_spawned = @ + 1]

\* AsyncioTerminal.close(): the terminal leaves the registry and its id is
\* remembered as closed.
terminal_close(st, session_id) ==
    [st EXCEPT !.sessions = DictRemove(@, {session_id}),
               !.closed_sessions = @ \cup {session_id}]

\* _delayed_terminal_closure, finally: terminal._closure_task = None
closure_finally(st, session_id) ==
    IF session_id \in DOMAIN st.sessions
    THEN [st EXCEPT !.sessions[session_id].closure_task = 0]
    ELSE st

\* task.cancel() of a sleeping _delayed_terminal_closure: CancelledError is
\* raised at its sleep when the canceller next yields, and its finally runs.
cancel_closure(st, task) ==
    IF task \in DOMAIN st.timers
    THEN closure_finally([st EXCEPT !.timers = DictRemove(@, {task})],
                         st.timers[task].session)
    ELSE st

\* _schedule_terminal_closure(session_id, terminal, grace_period): cancels the
\* task terminal._closure_task refers to, creates the new task and stores it
\* in terminal._closure_task; the cancelled task then runs its finally.
schedule_terminal_closure(st, session_id) ==
    LET old     == st.sessions[session_id].closure_task
        pending == old # 0 /\ old \in DOMAIN st.timers
        kept    == IF pending THEN DictRemove(st.timers, {old}) ELSE st.timers
        task    == FreeTask(DOMAIN kept)
        st1     == [st EXCEPT !.timers = DictPut(kept, task, [session |-> session_id,
                                                               remaining |-> GRACE_PERIOD]),
                              !.sessions[session_id].closure_task = task]
    IN  IF pending THEN closure_finally(st1, session_id) ELSE st1

\* _delayed_terminal_closure that does not look at the client set.
DelayedClosureBlind(st, task) ==
    LET session_id == st.timers[task].session
        done       == [st EXCEPT !.timers = DictRemove(@, {task})]
    IN  IF session_id \in DOMAIN st.sessions /\ ~st.sessions[session_id].closed
        THEN closure_finally(terminal_close(done, session_id), session_id)
        ELSE closure_finally(done, session_id)

\* _delayed_terminal_closure that never closes the terminal.
DelayedClosureKeeps(st, task) ==
    closure_finally([st EXCEPT !.timers = DictRemove(@, {task})], st.timers[task].session)

\* _delayed_terminal_closure(session_id, terminal, grace_period) from the
\* moment its sleep is over.
delayed_terminal_closure(st, task) ==
    LET session_id == st.timers[task].session
        present    == session_id \in DOMAIN st.sessions
        done       == [st EXCEPT !.timers = DictRemove(@, {task})]
    IN  IF present /\ st.sessions[session_id].client_sids # {}
        THEN closure_finally(done, session_id)
        ELSE IF present /\ ~st.sessions[session_id].closed
        THEN closure_finally(terminal_close(done, session_id), session_id)
        ELSE closure_finally(done, session_id)

\* send_terminal_history(sid, session_id, terminal): the buffer of the session,
\* when it holds anything, goes to the client as one terminal_output event.
send_terminal_history(st, sid, session_id) ==
    LET buffer_content == get_session_buffer_content(session_id)
        st1 == [st EXCEPT !.rx = DictPut(@, <<sid, session_id>>,
                                     RxReplay(RxOf(st.rx, sid, session_id), buffer_content))]
    IN  IF buffer_content # <<>>
        THEN Emit(st1, Ev("terminal_output", "history", None))
        ELSE st1

\* terminal.client_sids.add(sid)
AddClient(st, sid, session_id) ==
    [st EXCEPT !.sessions[session_id].client_sids = @ \cup {sid}]

\* create_terminal without its look into closed_sessions.
CreateTerminalRevives(st, sid, session_id, user_info) ==
    IF ~can_user_modify(sid)
    THEN Emit(st, Ev("terminal_error", "Viewers cannot create terminals", None))
    ELSE IF session_id \in DOMAIN st.sessions
    THEN IF ~st.sessions[session_id].closed
         THEN LET task == st.sessions[session_id].closure_task
                  st1  == IF task # 0
                          THEN [cancel_closure(st, task) EXCEPT
                                    !.sessions[session_id].closure_task = 0]
                          ELSE st
              IN  Emit(send_terminal_history(AddClient(st1, sid, session_id), sid, session_id),
                       Ev("terminal_ready", "ready", None))
         ELSE Emit(st, Ev("terminal_closed", "session_already_closed",
                          PyBool(check_session_ownership(st, session_id, user_info))))
    ELSE Emit([AddClient(NewTerminal(st, session_id, user_info), sid, session_id) EXCEPT
                   !.rx = DictPut(@, <<sid, session_id>>, Synced)],
              Ev("terminal_ready", "ready", None))

\* create_terminal(sid, data) with data["session"] = session_id.  The client
\* that creates a terminal has all of its output: its history is empty.
create_terminal(st, sid, session_id, user_info) ==
    IF ~can_user_modify(sid)
    THEN Emit(st, Ev("terminal_error", "Viewers cannot create terminals", None))
    ELSE IF session_id \in DOMAIN st.sessions
    THEN IF ~st.sessions[session_id].closed
         THEN LET task == st.sessions[session_id].closure_task
                  st1  == IF task # 0
                          THEN [cancel_closure(st, task) EXCEPT
                                    !.sessions[session_id].closure_task = 0]
                          ELSE st
              IN  Emit(send_terminal_history(AddClient(st1, sid, session_id), sid, session_id),
                       Ev("terminal_ready", "ready", None))
         ELSE Emit(st, Ev("terminal_closed", "session_already_closed",
                          PyBool(check_session_ownership(st, session_id, user_info))))
    ELSE IF session_id \in st.closed_sessions
    THEN Emit(st, Ev("terminal_closed", "session_already_closed",
                     PyBool(check_session_ownership(st, session_id, user_info))))
    ELSE Emit([AddClient(NewTerminal(st, session_id, user_info), sid, session_id) EXCEPT
                   !.rx = DictPut(@, <<sid, session_id>>, Synced)],
              Ev("terminal_ready", "ready", None))

\* reconnect_session that never looks into the buffer store.
ReconnectIgnoresBuffer(st, sid, session_id) ==
    IF session_id \in DOMAIN st.sessions /\ ~st.sessions[session_id].closed
    THEN Emit(send_terminal_history(AddClient(st, sid, session_id), sid, session_id),
              Ev("terminal_ready", "ready", None))
    ELSE Emit(st, Ev("session_not_found", None, None))

\* reconnect_session(sid, data) with data["session"] = session_id
reconnect_session(st, sid, session_id) ==
    IF session_id \in DOMAIN st.sessions /\ ~st.sessions[session_id].closed
    THEN Emit(send_terminal_history(AddClient(st, sid, session_id), sid, session_id),
              Ev("terminal_ready", "ready", None))
    ELSE IF get_session_buffer_content(session_id) # <<>>
    THEN Emit(Emit(st, Ev("terminal_output", "history", None)),
              Ev("terminal_ready", "restored_from_buffer", None))
    ELSE Emit(st, Ev("session_not_found", None, None))

\* resume_terminal(sid, data) with data["sessionId"] = session_id
resume_terminal(st, sid, session_id, user_info) ==
    IF session_id \in DOMAIN st.sessions /\ ~st.sessions[session_id].closed
    THEN Emit(send_terminal_history(AddClient(st, sid, session_id), sid, session_id),
              Ev("terminal_ready", "resumed", None))
    ELSE create_terminal(st, sid, session_id, user_info)

\* resume_workspace(sid, data) where data holds one tab with one pane, bound
\* to session_id
resume_workspace(st, sid, session_id, user_info) ==
    IF session_id \in DOMAIN st.sessions /\ ~st.sessions[session_id].closed
    THEN Emit(AddClient(st, sid, session_id), Ev("workspace_resumed", "resumed", None))
    ELSE Emit(create_terminal(st, sid, session_id, user_info),
              Ev("workspace_resumed", "created", None))

\* terminal_input(sid, data) with data["session"] = session_id; terminal.write
\* hands the data to the PTY.
terminal_input(st, sid, session_id) ==
    IF ~can_user_modify(sid)
    THEN Emit(st, Ev("terminal_output", "[Input blocked: Read-only access for Viewer role]", None))
    ELSE IF session_id \in DOMAIN st.sessions
    THEN [st EXCEPT !.pty_input = DictPut(@, session_id,
                        (IF session_id \in DOMAIN @ THEN @[session_id] ELSE 0) + 1)]
    ELSE st

\* broadcast_to_session(session_id, message) for a chunk of output: every
\* client in client_sids is sent the chunk.
broadcast_to_session(rxv, session_id, chunk) ==
    LET client_sids == IF session_id \in DOMAIN sessions
                       THEN sessions[session_id].client_sids ELSE {}
        keys == {<<c, session_id>> : c \in client_sids}
    IN  [k \in DOMAIN rxv \cup keys |->
            IF k \in keys
            THEN [RxOf(rxv, k[1], session_id) EXCEPT !.live = @ \cup {chunk}]
            ELSE rxv[k]]

\* The handler's effect on the state of the terminals.
Apply(st) ==
    /\ sessions' = st.sessions
    /\ closed_sessions' = st.closed_sessions
    /\ session_owners' = st.session_owners
    /\ timers' = st.timers
    /\ rx' = st.rx
    /\ pty_input' = st.pty_input
    /\ pty_spawned' = st.pty_spawned

RECURSIVE discard_client(_, _, _)
\* disconnect, the loop over the sessions that hold the client: the client is
\* discarded, and a session left without clients gets a closure task.
discard_client(st, sid, todo) ==
    IF todo = {} THEN st
    ELSE LET session_id == CHOOSE s \in todo : TRUE
             st1 == [st EXCEPT !.sessions[session_id].client_sids = @ \ {sid}]
             st2 == IF st1.sessions[session_id].client_sids = {}
                    THEN schedule_terminal_closure(st1, session_id)
                    ELSE st1
         IN  discard_client(st2, sid, todo \ {session_id})

\* disconnect(sid), after remove_user
disconnect(st, sid) ==
    discard_client(st, sid, {s \in DOMAIN st.sessions : sid \in st.sessions[s].client_sids})

\* The sessions whose last client has gone and did not come back, with the
\* ticks since: the sessions of d without those that st shows with a client.
StillDetached(d, st) ==
    DictRemove(d, {s \in DOMAIN st.sessions : st.sessions[s].client_sids # {}})

\* connect that hands every new client an empty workspace.
ConnectResetsWorkspace(sid, roles) ==
    /\ user_roles' = DictPut(user_roles, sid, IF "Viewer" \in roles THEN "Viewer" ELSE "User")
    /\ call' = [op |-> "connect", sid |-> sid, roles |-> roles]
    /\ tabs' = <<>>
    /\ activeTabId' = None
    /\ UNCHANGED <<mgmt_tabs, ws_name, ws_layout, lastAccessed, uuid_count,
                   bufVars, svcVars, sockVars>>

\* connect(sid, environ) for a client whose headers give the roles user_roles:
\* add_user stores it as a Viewer or as a User.
connect(sid, roles) ==
    /\ user_roles' = DictPut(user_roles, sid, IF "Viewer" \in roles THEN "Viewer" ELSE "User")
    /\ call' = [op |-> "connect", sid |-> sid, roles |-> roles]
    /\ UNCHANGED <<mgmt_tabs, tabs, activeTabId, ws_name, ws_layout, lastAccessed, uuid_count,
                   bufVars, svcVars, sockVars>>

\* A client without the Viewer role connects.
SockConnect ==
    \E sid \in Clients \ DOMAIN user_roles : connect(sid, {"Admin"})

\* A client with the Viewer role connects.
SockConnectViewer ==
    \E sid \in Clients \ DOMAIN user_roles : connect(sid, {"Viewer", "Guest"})

\* The roles get_user_info_from_environ reads from the headers that
\* on_workspace_connect hands it.
EnvRoles == {{}, {"Admin"}, {"Viewer", "Guest"}}

\* The "role" field of the data of workspace_connect: absent, or a role name.
DataRoles == {<<>>, <<"User">>, <<"Viewer">>}

\* on_workspace_connect(sid, data): the role is Viewer when the roles of the
\* environment hold it and User otherwise, data["role"] replaces it when
\* present, and add_user stores it for sid.
on_workspace_connect(sid, roles, data) ==
    LET from_env == IF "Viewer" \in roles THEN "Viewer" ELSE "User"
        role     == IF data # <<>> THEN data[1] ELSE from_env
    IN  /\ user_roles' = DictPut(user_roles, sid, role)
        /\ call' = [op |-> "workspace_connect", sid |-> sid, role |-> role]
        /\ UNCHANGED <<mgmt_tabs, tabs, activeTabId, ws_name, ws_layout, lastAccessed, uuid_count,
                       bufVars, svcVars, sockVars>>

SockWorkspaceConnect ==
    \E sid \in DOMAIN user_roles, roles \in EnvRoles, data \in DataRoles :
        on_workspace_connect(sid, roles, data)

\* disconnect(sid)
SockDisconnect ==
    \E sid \in DOMAIN user_roles :
        LET st   == disconnect(SockState, sid)
            left == {s \in DOMAIN sessions : /\ sessions[s].client_sids = {sid}}
        IN  /\ DOMAIN st.timers \subseteq TaskIds
            /\ user_roles' = DictRemove(user_roles, {sid})
            /\ Apply([st EXCEPT !.rx = DictRemove(@, {k \in DOMAIN @ : k[1] = sid})])
            /\ detached_for' = [s \in DOMAIN detached_for \cup left |->
                                   IF s \in left THEN 0 ELSE detached_for[s]]
            /\ call' = [op |-> "disconnect", sid |-> sid, left |-> left]
            /\ UNCHANGED <<mgmt_tabs, tabs, activeTabId, ws_name, ws_layout, lastAccessed, uuid_count,
                           out_count, resuming, bufVars, svcVars>>

\* A handler that attaches clients to sessions has run to its end.
Handled(st, op, sid, session_id) ==
    /\ Apply(st)
    /\ detached_for' = StillDetached(detached_for, st)
    /\ call' = [op |-> op, sid |-> sid, session_id |-> session_id, reply |-> st.reply]
    /\ UNCHANGED <<out_count, resuming, bufVars, svcVars, wsVars>>

SockCreateTerminal ==
    \E sid \in DOMAIN user_roles, session_id \in RequestedIds, user_info \in UserInfos :
        Handled(create_terminal(SockState, sid, session_id, user_info),
                "create_terminal", sid, session_id)

SockReconnectSession ==
    \E sid \in DOMAIN user_roles, session_id \in RequestedIds :
        Handled(reconnect_session(SockState, sid, session_id),
                "reconnect_session", sid, session_id)

SockResumeTerminal ==
    \E sid \in DOMAIN user_roles, session_id \in RequestedIds, user_info \in UserInfos :
        Handled(resume_terminal(SockState, sid, session_id, user_info),
                "resume_terminal", sid, session_id)

SockResumeWorkspace ==
    \E sid \in DOMAIN user_roles, session_id \in RequestedIds, user_info \in UserInfos :
        Handled(resume_workspace(SockState, sid, session_id, user_info),
                "resume_workspace", sid, session_id)

\* resume_workspace, one pane of its loop: the client is added to the pane's
\* terminal when that is registered and not closed, else create_terminal is
\* awaited for the pane's session id.
resume_pane(st, sid, session_id, user_info) ==
    IF session_id \in DOMAIN st.sessions /\ ~st.sessions[session_id].closed
    THEN AddClient(st, sid, session_id)
    ELSE create_terminal(st, sid, session_id, user_info)

\* Whether resume_workspace is suspended in its pane for session_id: only
\* create_terminal awaits (start_pty, or the emit of its answer).
PaneAwaits(st, session_id) ==
    ~(session_id \in DOMAIN st.sessions /\ ~st.sessions[session_id].closed)

\* A step of resume_workspace(sid, data) over the panes bound to the session
\* ids in panes, from where it stands to its next await: the state
\* afterwards and the panes it has yet to go through (None when it has sent
\* workspace_resumed and returned).
RECURSIVE resume_panes(_, _, _, _)
resume_panes(st, sid, panes, user_info) ==
    IF panes = <<>>
    THEN [st |-> Emit(st, Ev("workspace_resumed", "resumed", None)), rest |-> None]
    ELSE IF PaneAwaits(st, panes[1])
    THEN [st |-> resume_pane(st, sid, panes[1], user_info), rest |-> Tail(panes)]
    ELSE resume_panes(resume_pane(st, sid, panes[1], user_info), sid, Tail(panes), user_info)

\* What a step of resume_workspace leaves behind.
Resumed(r, sid, session_ids) ==
    /\ Apply(r.st)
    /\ detached_for' = StillDetached(detached_for, r.st)
    /\ resuming' = IF r.rest = None
                   THEN DictRemove(resuming, {sid})
                   ELSE DictPut(resuming, sid, [rest |-> r.rest])
    /\ call' = [op |-> "resume_workspace_panes", sid |-> sid, session_ids |-> session_ids,
                reply |-> r.st.reply]
    /\ UNCHANGED <<out_count, bufVars, svcVars, wsVars>>

\* resume_workspace(sid, data) where data holds a tab with two panes, bound
\* to two session ids.
SockResumePanes ==
    \E sid \in DOMAIN user_roles \ DOMAIN resuming, a \in SessionIds, user_info \in UserInfos :
        \E b \in SessionIds \ {a} :
            LET r == resume_panes(SockState, sid, <<a, b>>, user_info)
            IN  Resumed(r, sid, <<a, b>>)

\* What resume_workspace awaited is done and its loop goes on, whether or not
\* its client is still connected.
SockResumePanesGoOn ==
    \E sid \in DOMAIN resuming, user_info \in UserInfos :
        LET r == resume_panes(SockState, sid, resuming[sid].rest, user_info)
        IN  Resumed(r, sid, resuming[sid].rest)

SockTerminalInput ==
    \E sid \in DOMAIN user_roles, session_id \in RequestedIds :
        LET st == terminal_input(SockState, sid, session_id)
        IN  /\ \A s \in DOMAIN st.pty_input : st.pty_input[s] <= MaxInput
            /\ Handled(st, "terminal_input", sid, session_id)

\* The clock ticks: every sleeping closure task is one tick nearer its end.
\* A task whose sleep is over runs before the clock ticks again.
SockTick ==
    /\ timers # <<>>
    /\ \A task \in DOMAIN timers : timers[task].remaining > 0
    /\ timers' = [task \in DOMAIN timers |-> [timers[task] EXCEPT !.remaining = @ - 1]]
    /\ detached_for' = [s \in DOMAIN detached_for |->
                           IF detached_for[s] < GRACE_PERIOD
                           THEN detached_for[s] + 1 ELSE detached_for[s]]
    /\ call' = [op |-> "tick"]
    /\ UNCHANGED <<sessions, closed_sessions, session_owners, rx, pty_input, pty_spawned,
                   out_count, resuming, bufVars, svcVars, wsVars>>

\* The buffer of a session that AsyncioTerminal.close() has just closed: it is
\* cleared, or it outlives the session.
BufferAfterClose(session_id) ==
    \/ clear_buffer(session_id)
    \/ UNCHANGED bufVars

\* The sleep of a closure task is over.
SockClosureTask ==
    \E task \in DOMAIN timers :
        LET st         == delayed_terminal_closure(SockState, task)
            session_id == timers[task].session
        IN  /\ timers[task].remaining = 0
            /\ Apply(st)
            /\ IF session_id \in DOMAIN sessions /\ session_id \notin DOMAIN st.sessions
               THEN BufferAfterClose(session_id)
               ELSE UNCHANGED bufVars
            /\ call' = [op |-> "closure_task", session_id |-> session_id,
                        closed |-> session_id \in st.closed_sessions \ closed_sessions]
            /\ UNCHANGED <<detached_for, out_count, resuming, svcVars, wsVars>>

\* The read loop of a terminal got a chunk of output from its PTY: it goes to
\* the buffer and to every attached client.
SockPtyOutput ==
    \E session_id \in DOMAIN sessions :
        LET n == IF session_id \in DOMAIN out_count THEN out_count[session_id] ELSE 0
        IN  /\ n < MaxOut
            /\ out_count' = DictPut(out_count, session_id, n + 1)
            /\ UNCHANGED resuming
            /\ append_to_buffer(session_id, <<n + 1>>)
            /\ rx' = broadcast_to_session(rx, session_id, n + 1)
            /\ call' = [op |-> "pty_output", session_id |-> session_id, chunk |-> n + 1]
            /\ UNCHANGED <<sessions, closed_sessions, session_owners, timers, detached_for,
                           pty_input, pty_spawned, svcVars, wsVars>>

\* f"terminal_{pane_id}_{uuid4().hex[:8]}" for the n-th uuid4()
TerminalId(pane_id, n) == "terminal_" \o pane_id \o "_" \o ToString(n)

\* create_terminal whose terminal cannot be started (no PTY to allocate): the
\* exception is caught in create_terminal, which reports terminal_error and
\* returns; the failure is fatal to the session, which is not registered.
create_terminal_error(st) == Emit(st, Ev("terminal_error", "error", None))

\* tab_create(sid, data) with data["type"] = tab_type: the terminals and the
\* workspace afterwards.  A terminal tab gets a terminal for its pane, and
\* the pane is bound to its session id.  pty_ok tells whether the terminal
\* can be started.
tab_create(st, sid, tab_type, user_info, pty_ok) ==
    LET r    == create_tab(tab_type)
        same == [st |-> st, tabs |-> tabs, activeTabId |-> activeTabId,
                 lastAccessed |-> lastAccessed, uuid_count |-> uuid_count]
    IN  IF ~can_user_modify(sid)
        THEN [same EXCEPT !.st = Emit(st, Ev("workspace_error", "Viewers cannot create tabs", None))]
        ELSE IF r.ret = <<>>
        THEN [same EXCEPT !.st = Emit(st, Ev("workspace_error",
                                   "Failed to create tab - maximum tabs reached", None))]
        ELSE IF tab_type = "terminal" /\ r.ret[1].panes # <<>>
        THEN LET pane_id    == r.ret[1].panes[1].id
                 session_id == TerminalId(pane_id, r.uuid_count + 1)
             IN  [st |-> Emit(IF pty_ok
                                   THEN create_terminal(st, sid, session_id, user_info)
                                   ELSE create_terminal_error(st),
                              Ev("tab_created", "success", None)),
                  tabs |-> update_pane_session(r.tabs, r.ret[1].id, pane_id, session_id).tabs,
                  activeTabId |-> r.activeTabId, lastAccessed |-> r.lastAccessed,
                  uuid_count |-> r.uuid_count + 1]
        ELSE [st |-> Emit(st, Ev("tab_created", "success", None)),
              tabs |-> r.tabs, activeTabId |-> r.activeTabId,
              lastAccessed |-> r.lastAccessed, uuid_count |-> r.uuid_count]

\* on_workspace_update(sid, data) with data["workspaceData"] = workspace_data:
\* the workspace afterwards and the events sent to the client.
on_workspace_update(sid, workspace_data) ==
    LET r == update_workspace(workspace_data)
    IN  IF ~can_user_modify(sid)
        THEN [name |-> ws_name, tabs |-> tabs, activeTabId |-> activeTabId,
              layout |-> ws_layout, lastAccessed |-> lastAccessed,
              reply |-> <<Ev("workspace_error", "Viewers cannot modify the workspace", None)>>]
        ELSE [name |-> r.name, tabs |-> r.tabs, activeTabId |-> r.activeTabId,
              layout |-> r.layout, lastAccessed |-> r.lastAccessed,
              reply |-> IF r.ret = "ValueError"
                        THEN <<Ev("workspace_error", "Maximum tab limit exceeded", None)>>
                        ELSE <<Ev("workspace_updated", "success", None)>>]

SockTabCreate ==
    \E sid \in DOMAIN user_roles, tab_type \in TabTypes, user_info \in UserInfos,
       pty_ok \in BOOLEAN :
        LET r == tab_create(SockState, sid, tab_type, user_info, pty_ok)
        IN  /\ r.uuid_count <= MaxUuid
            /\ Apply(r.st)
            /\ tabs' = r.tabs
            /\ activeTabId' = r.activeTabId
            /\ lastAccessed' = r.lastAccessed
            /\ uuid_count' = r.uuid_count
            /\ call' = [op |-> "tab_create", sid |-> sid, tab_type |-> tab_type,
                        reply |-> r.st.reply]
            /\ UNCHANGED <<mgmt_tabs, ws_name, ws_layout, user_roles, detached_for, out_count, resuming,
                           bufVars, svcVars>>

\* The workspace_data clients send to workspace_update: a new name and the
\* tabs of the workspace with one of the client's own added (one more than
\* the limit when the workspace is full).
GateWorkspaceData ==
    {[keys |-> {"name", "tabs"}, name |-> "renamed", tabs |-> tabs \o <<ClientTab>>,
      activeTabId |-> None, layout |-> "grid"]}

SockWorkspaceUpdate ==
    \E sid \in DOMAIN user_roles, workspace_data \in GateWorkspaceData :
        LET r == on_workspace_update(sid, workspace_data)
        IN  /\ tabs' = r.tabs
            /\ activeTabId' = r.activeTabId
            /\ ws_name' = r.name
            /\ ws_layout' = r.layout
            /\ lastAccessed' = r.lastAccessed
            /\ call' = [op |-> "workspace_update", sid |-> sid, reply |-> r.reply]
            /\ UNCHANGED <<mgmt_tabs, user_roles, uuid_count, bufVars, svcVars, sockVars>>

\* The read loop of a terminal reads end of file from its PTY: the terminal
\* closes.
SockPtyExit ==
    \E session_id \in DOMAIN sessions :
        /\ Apply(terminal_close(SockState, session_id))
        /\ BufferAfterClose(session_id)
        /\ detached_for' = DictRemove(detached_for, {session_id})
        /\ call' = [op |-> "pty_exit", session_id |-> session_id]
        /\ UNCHANGED <<out_count, resuming, svcVars, wsVars>>

SockNext ==
    \/ SockConnect
    \/ SockDisconnect
    \/ SockCreateTerminal
    \/ SockReconnectSession
    \/ SockResumeTerminal
    \/ SockResumeWorkspace
    \/ SockTick
    \/ SockClosureTask
    \/ SockPtyOutput

SpecSock == Init /\ [][SockNext]_vars

\* Users and Viewers at work on the shared workspace and its terminals.
GateNext ==
    \/ SockConnect
    \/ SockConnectViewer
    \/ SockCreateTerminal
    \/ SockTerminalInput
    \/ SockTabCreate
    \/ SockWorkspaceUpdate

SpecGate == Init /\ [][GateNext]_vars

\* Clients connect, send workspace_connect, ask for terminals, type and leave.
RoleNext ==
    \/ SockConnect
    \/ SockConnectViewer
    \/ SockWorkspaceConnect
    \/ SockDisconnect
    \/ SockCreateTerminal
    \/ SockTerminalInput

SpecRole == Init /\ [][RoleNext]_vars

\* Clients resume workspaces of two panes, and leave while their handlers
\* are suspended.
ResumeNext ==
    \/ SockConnect
    \/ SockDisconnect
    \/ SockResumePanes
    \/ SockResumePanesGoOn
    \/ SockTick

SpecResume == Init /\ [][ResumeNext]_vars

\* The TerminalHandler endpoint at work for Viewers and other clients.
HandlerNext ==
    \/ HdlCreateTerminal
    \/ HdlDisconnect
    \/ HdlReadOutput
    \/ HdlFanoutResume
    \/ SvcReadExit
    \/ SvcClose
    \/ SvcWrite
    \/ HdlResize
    \/ SockConnectViewer

SpecHandler == Init /\ [][HandlerNext]_vars

\* The event loop keeps running: an emit that was awaited returns and the
\* handler that awaited it goes on.  Nothing makes a shell exit.
SpecHandlerFair == SpecHandler /\ WF_vars(HdlFanoutResume)

\* Users and Viewers ask for terminals by id while terminals end.
ClosedNext ==
    \/ SockConnect
    \/ SockConnectViewer
    \/ SockCreateTerminal
    \/ SockResumeTerminal
    \/ SockPtyExit

SpecClosed == Init /\ [][ClosedNext]_vars

\* cleanup_closed_sessions that leaves every pane as it is.
CleanupKeepsAll(ts, registry) == ts

\* cleanup_closed_sessions() over the tabs ts, AsyncioTerminal.sessions being
\* registry: a pane whose session id is set and names no terminal, or a closed
\* one, loses it and becomes "disconnected".  GlobalWorkspaceService and
\* WorkspaceManagementService treat a pane alike.
cleanup_closed_sessions(ts, registry) ==
    [i \in 1 .. Len(ts) |->
        [ts[i] EXCEPT !.panes =
            [j \in 1 .. Len(ts[i].panes) |->
                LET session_id == ts[i].panes[j].sessionId
                IN  IF /\ session_id # None
                       /\ (session_id \notin DOMAIN registry \/ registry[session_id].closed)
                    THEN [ts[i].panes[j] EXCEPT !.sessionId = None, !.status = "disconnected"]
                    ELSE ts[i].panes[j]]]]

\* GlobalWorkspaceService.cleanup_closed_sessions()
WsCleanup ==
    /\ tabs' = cleanup_closed_sessions(tabs, sessions)
    /\ call' = [op |-> "cleanup_closed_sessions"]
    /\ UNCHANGED <<mgmt_tabs, activeTabId, ws_name, ws_layout, lastAccessed, user_roles,
                   uuid_count, bufVars, svcVars, sockVars>>

\* Tabs with terminals are created and closed while the terminals live
\* their own lives.
TabsNext ==
    \/ SockConnect
    \/ SockDisconnect
    \/ SockTabCreate
    \/ WsCloseTab
    \/ SockPtyExit
    \/ SockTick
    \/ SockClosureTask
    \/ WsCleanup

SpecTabs == Init /\ [][TabsNext]_vars

\* The event loop keeps running: time passes, and a task whose sleep is over
\* is resumed.
SpecSockFair == SpecSock /\ WF_vars(SockTick) /\ WF_vars(SockClosureTask)

(***************************************************************************)
(* C1: for every session id, after any sequence of append_to_buffer and    *)
(* clear_buffer calls with chunks of any length (chunks longer than the    *)
(* cap included), the stored buffer is at most MAX_BUFFER_SIZE long.       *)
(***************************************************************************)
C1_BufferBound ==
    \A s \in SessionIds : get_buffer_size(s) <= MAX_BUFFER_SIZE

\* An append of a chunk longer than the cap has just filled the buffer of s1 to
\* the cap, while s2 holds a buffer too.
C1_Witness ==
    /\ call.op = "append_to_buffer"
    /\ call.session_id = "s1"
    /\ Len(call.data) > MAX_BUFFER_SIZE
    /\ get_buffer_size("s1") = MAX_BUFFER_SIZE
    /\ get_buffer_size("s2") > 0

(***************************************************************************)
(* C6: if the window-size ioctl fails during resize_session(session_id,    *)
(* rows, cols), the session's stored rows and cols keep their prior values *)
(* and the operation reports failure; the stored dimensions change only    *)
(* when the ioctl succeeded.                                               *)
(***************************************************************************)
C6_ResizeAtomic ==
    [][call'.op = "resize_session" =>
          /\ call'.syscall = "failed" =>
                 /\ call'.ret = FALSE
                 /\ svc_sessions' = svc_sessions
          /\ svc_sessions' # svc_sessions => call'.syscall = "ok"]_vars

(***************************************************************************)
(* C4: in every reachable state of the global workspace (any sequence of   *)
(* create_tab, close_tab, update_pane_session and update_workspace) the    *)
(* workspace holds at most MAX_TABS tabs, and create_tab called when it    *)
(* holds exactly MAX_TABS returns None and leaves the tab list (the active *)
(* flag of every tab with it) and the active tab id unchanged.             *)
(***************************************************************************)
C4_TabLimit ==
    /\ [](Len(tabs) <= MAX_TABS)
    /\ [][(call'.op = "create_tab" /\ Len(tabs) = MAX_TABS) =>
              /\ call'.ret = <<>>
              /\ tabs' = tabs
              /\ \A i \in 1 .. Len(tabs) : tabs'[i].isActive = tabs[i].isActive
              /\ activeTabId' = activeTabId]_vars

\* create_tab has just been refused on a full workspace.
C4_Witness ==
    /\ call.op = "create_tab"
    /\ call.ret = <<>>
    /\ Len(tabs) = MAX_TABS

(***************************************************************************)
(* C7: create_tab below the limit returns the tab it appended; a terminal  *)
(* tab has exactly one pane, whose sessionId is None, and a tab of another *)
(* kind has no pane.  update_pane_session(tab_id, pane_id, s) on a pane    *)
(* that exists returns True and sets that pane's sessionId to s and its    *)
(* status to connected, changing nothing else; for an unknown tab or pane  *)
(* it returns False and changes nothing.                                   *)
(***************************************************************************)
C7_TabPanes ==
    [][/\ (call'.op = "create_tab" /\ Len(tabs) < MAX_TABS) =>
            /\ Len(call'.ret) = 1
            /\ tabs'[Len(tabs')] = call'.ret[1]
            /\ Len(tabs') = Len(tabs) + 1
            /\ IF call'.tab_type = "terminal"
               THEN /\ Len(call'.ret[1].panes) = 1
                    /\ call'.ret[1].panes[1].sessionId = None
               ELSE call'.ret[1].panes = <<>>
       /\ call'.op = "update_pane_session" =>
            LET ms == PaneMatches(tabs, call'.tab_id, call'.pane_id)
            IN  /\ ms = {} => call'.ret = FALSE /\ UNCHANGED wsVars
                /\ ms # {} =>
                     /\ call'.ret = TRUE
                     /\ \E m \in ms :
                          /\ tabs'[m[1]].panes[m[2]].sessionId = call'.session_id
                          /\ tabs'[m[1]].panes[m[2]].status = "connected"
                          /\ tabs' = [tabs EXCEPT ![m[1]].panes[m[2]] = tabs'[m[1]].panes[m[2]]]
                          /\ tabs'[m[1]].panes[m[2]].id = call'.pane_id
                     /\ UNCHANGED <<activeTabId, ws_name, ws_layout, user_roles>>]_vars

\* update_pane_session has just bound a session to the default pane of a
\* terminal tab that create_tab made.
C7_Witness ==
    /\ call.op = "update_pane_session"
    /\ call.ret = TRUE
    /\ call.tab_id # "tab_x"
    /\ \E i \in 1 .. Len(tabs) :
          /\ tabs[i].id = call.tab_id
          /\ tabs[i].type = "terminal"
          /\ Len(tabs[i].panes) = 1
          /\ tabs[i].panes[1].id = call.pane_id
          /\ tabs[i].panes[1].sessionId = call.session_id
          /\ tabs[i].panes[1].status = "connected"

\* The handlers that attach the calling client to a session.
AttachOps == {"create_terminal", "reconnect_session", "resume_terminal", "resume_workspace"}

\* The status of the last event a handler sent to its caller.
LastStatus(reply) == IF reply = <<>> THEN None ELSE reply[Len(reply)].status

(***************************************************************************)
(* C2: when the last client of a session has gone less than GRACE_PERIOD   *)
(* ago and a client that may modify attaches through create_terminal,      *)
(* reconnect_session, resume_terminal or resume_workspace, the session is  *)
(* still in the registry and not closed, it keeps its PTY and no PTY is    *)
(* started, its buffer is unchanged, the client is attached and the reply  *)
(* reports the session ready (or resumed).                                 *)
(***************************************************************************)
C2_GraceReattach ==
    [][(/\ call'.op \in AttachOps
        /\ can_user_modify(call'.sid)
        /\ call'.session_id \in DOMAIN detached_for
        /\ detached_for[call'.session_id] < GRACE_PERIOD) =>
            LET s == call'.session_id
            IN  /\ s \in DOMAIN sessions
                /\ ~sessions[s].closed
                /\ s \in DOMAIN sessions'
                /\ sessions'[s].pty = sessions[s].pty
                /\ pty_spawned' = pty_spawned
                /\ session_buffers' = session_buffers
                /\ call'.sid \in sessions'[s].client_sids
                /\ LastStatus(call'.reply) \in {"ready", "resumed"}]_vars

(***************************************************************************)
(* C9: reconnect_session for a session id recorded in closed_sessions is   *)
(* answered with an already-closed status that carries an is_owner flag.   *)
(***************************************************************************)
C9_ReconnectClosed ==
    [][(call'.op = "reconnect_session" /\ call'.session_id \in closed_sessions) =>
            /\ call'.reply # <<>>
            /\ LastStatus(call'.reply) = "session_already_closed"
            /\ call'.reply[Len(call'.reply)].is_owner \in {"True", "False"}]_vars

(***************************************************************************)
(* C10: no client receives a replay of a session's buffer after live       *)
(* output of that session, and no client receives a chunk both live and    *)
(* inside a replay.                                                        *)
(***************************************************************************)
C10_ReplayBeforeLive ==
    \A k \in DOMAIN rx : rx[k].replay \notin {"late", "dup"}

\* The session is in the registry and no client is attached to it.
Detached(s) == s \in DOMAIN sessions /\ sessions[s].client_sids = {}

(***************************************************************************)
(* C3: while a session is without clients, the closure task started when   *)
(* its last client disconnected is pending and ends its sleep GRACE_PERIOD *)
(* after that disconnect; and a session without clients is eventually      *)
(* closed and out of the registry, unless a client attaches to it.         *)
(***************************************************************************)
C3_GraceExpiry ==
    /\ [](\A s \in DOMAIN sessions :
             Detached(s) =>
                 /\ s \in DOMAIN detached_for
                 /\ \E task \in DOMAIN timers :
                       /\ timers[task].session = s
                       /\ timers[task].remaining = GRACE_PERIOD - detached_for[s])
    /\ \A s \in RequestedIds :
           Detached(s) ~> \/ s \in closed_sessions /\ s \notin DOMAIN sessions
                          \/ s \in DOMAIN sessions /\ sessions[s].client_sids # {}

\* The closure task of a session has just closed it, GRACE_PERIOD after its
\* last client disconnected.
C3_Witness ==
    /\ call.op = "closure_task"
    /\ call.closed
    /\ call.session_id \in closed_sessions
    /\ call.session_id \notin DOMAIN sessions
    /\ detached_for[call.session_id] = GRACE_PERIOD

\* The handlers that must turn a Viewer away.
GatedOps == {"create_terminal", "terminal_input", "tab_create", "workspace_update"}

\* The events that tell a client that its request was refused.
Rejections ==
    {Ev("terminal_error", "Viewers cannot create terminals", None),
     Ev("terminal_output", "[Input blocked: Read-only access for Viewer role]", None),
     Ev("workspace_error", "Viewers cannot create tabs", None),
     Ev("workspace_error", "Viewers cannot modify the workspace", None)}

(***************************************************************************)
(* C5: create_terminal, terminal_input, tab_create and workspace_update    *)
(* called by a client stored as a Viewer leave the workspace, the session  *)
(* registry with every session's clients, and the input of every PTY       *)
(* unchanged, and send the client exactly one event, a rejection.          *)
(***************************************************************************)
C5_ViewerGate ==
    [][(/\ call'.op \in GatedOps
        /\ call'.sid \in DOMAIN user_roles
        /\ user_roles[call'.sid] = "Viewer") =>
            /\ UNCHANGED <<tabs, activeTabId, ws_name, ws_layout, lastAccessed, user_roles>>
            /\ UNCHANGED <<sessions, closed_sessions, session_owners, pty_input, pty_spawned>>
            /\ Len(call'.reply) = 1
            /\ call'.reply[1] \in Rejections]_vars

\* A Viewer has just been refused input to a terminal that exists, while the
\* workspace holds a tab.
C5_Witness ==
    /\ call.op = "terminal_input"
    /\ call.sid \in DOMAIN user_roles
    /\ user_roles[call.sid] = "Viewer"
    /\ call.session_id \in DOMAIN sessions
    /\ call.reply # <<>>
    /\ tabs # <<>>

(***************************************************************************)
(* C8: close_tab(tab_id) of a tab the workspace holds returns True and     *)
(* removes one tab with that id, the first, keeping the others in order;   *)
(* close_tab of an unknown id returns False and changes nothing.  Either   *)
(* way the terminals are untouched: the registry, the clients of every     *)
(* session, the closed sessions and the closure tasks stay as they are.    *)
(* A session leaves the registry only when its PTY exits or its closure    *)
(* task closes it.                                                         *)
(***************************************************************************)
C8_CloseTabFrame ==
    [][/\ call'.op = "close_tab" =>
            LET found == {i \in 1 .. Len(tabs) : tabs[i].id = call'.tab_id}
            IN  /\ UNCHANGED sockVars
                /\ found = {} => call'.ret = FALSE /\ UNCHANGED wsVars
                /\ found # {} =>
                     /\ call'.ret = TRUE
                     /\ \E i \in found :
                           /\ \A k \in found : i <= k
                           /\ tabs' = RemoveAt(tabs, i)
       /\ (\E s \in DOMAIN sessions : s \notin DOMAIN sessions') =>
            call'.op \in {"pty_exit", "closure_task"}]_vars

\* close_tab has just removed a tab whose pane is bound to a session that is
\* in the registry with a client attached, and another tab remains.
C8_Witness ==
    /\ call.op = "close_tab"
    /\ call.ret = TRUE
    /\ tabs # <<>>
    /\ \E s \in call.bound : s \in DOMAIN sessions /\ sessions[s].client_sids # {}

(***************************************************************************)
(* C11: the buffer of a session survives the session's closure: after      *)
(* close_session(s), explicit or from the read loop on EOF or a read       *)
(* error, get_buffer(s) returns what it returned just before the close.    *)
(***************************************************************************)
C11_BufferSurvivesClose ==
    [][\A s \in SessionIds :
          (call'.op = "close_session" /\ call'.session_id = s) =>
              get_buffer(s)' = get_buffer(s)]_vars

\* The registered sessions own pairwise distinct open descriptors and live
\* children, and exactly the registered sessions have a read task.
SvcResourcesOwned ==
    /\ read_tasks = DOMAIN svc_sessions
    /\ \A s \in DOMAIN svc_sessions :
          /\ svc_sessions[s].master_fd # svc_sessions[s].slave_fd
          /\ {svc_sessions[s].master_fd, svc_sessions[s].slave_fd} \subseteq open_fds
          /\ svc_sessions[s].pid \in procs
          /\ \A o \in DOMAIN svc_sessions \ {s} :
                /\ {svc_sessions[s].master_fd, svc_sessions[s].slave_fd}
                     \cap {svc_sessions[o].master_fd, svc_sessions[o].slave_fd} = {}
                /\ svc_sessions[s].pid # svc_sessions[o].pid

(***************************************************************************)
(* C14: create_session for a session id that is registered raises (the     *)
(* code's AlreadyExists is a ValueError) and changes nothing: the session  *)
(* object, its PTY, its read task, its clients and its buffer stay as they *)
(* are and no descriptor or process is allocated.                          *)
(***************************************************************************)
C14_CreateExisting ==
    [][(call'.op = "create_session" /\ call'.session_id \in DOMAIN svc_sessions) =>
          /\ call'.raised = "ValueError"
          /\ UNCHANGED <<svcVars, bufVars>>]_vars

\* create_session("s1") was just refused while s1 has a client and a buffer.
C14_Witness ==
    /\ call.op = "create_session"
    /\ call.session_id = "s1"
    /\ call.raised = "ValueError"
    /\ "s1" \in DOMAIN svc_sessions
    /\ svc_sessions["s1"].client_sids # {}
    /\ get_buffer("s1") # <<>>
    /\ Cardinality(open_fds) + 2 <= MaxFd

(***************************************************************************)
(* C15: close_session is idempotent and re-entrant.  The first close of a  *)
(* session reclaims exactly its own two descriptors and its child, ends    *)
(* its read task and removes the registry entry; any further close of the  *)
(* id, and the exit path of a read loop whose session is closed already,   *)
(* changes nothing, reclaims nothing and invokes no close callback.        *)
(***************************************************************************)
C15_CloseIdempotent ==
    /\ []SvcResourcesOwned
    /\ [][\A s \in SessionIds :
            /\ (call'.op = "close_session" /\ call'.session_id = s) =>
                  /\ s \notin DOMAIN svc_sessions'
                  /\ s \notin read_tasks'
                  /\ IF s \in DOMAIN svc_sessions
                     THEN /\ call'.reclaimed = {svc_sessions[s].master_fd,
                                                svc_sessions[s].slave_fd}
                          /\ call'.reclaimed \subseteq open_fds
                          /\ open_fds' = open_fds \ call'.reclaimed
                          /\ procs' = procs \ {svc_sessions[s].pid}
                          /\ svc_sessions[s].pid \in procs
                          /\ call'.callback = svc_sessions[s].close_callback
                     ELSE /\ UNCHANGED <<svcVars, bufVars>>
                          /\ call'.reclaimed = {}
                          /\ call'.callback = FALSE
            /\ (call'.op = "read_loop_end" /\ call'.session_id = s) =>
                  UNCHANGED <<svcVars, bufVars>>]_vars
    /\ [][call'.op = "close_session" /\ call'.again =>
            call'.reclaimed = {} /\ ~call'.callback /\ UNCHANGED <<svcVars, bufVars>>]_vars

\* close_session("s1") was called a second time in a row, for a session that
\* had a close callback, while s2 is live on the descriptors s1 gave back.
C15_Witness ==
    /\ call.op = "close_session"
    /\ call.session_id = "s1"
    /\ call.again
    /\ "s2" \in DOMAIN svc_sessions
    /\ svc_sessions["s2"].master_fd = 1
    /\ get_buffer("s2") # <<>>

(***************************************************************************)
(* C20: per-session failures are isolated.  When the read loop of s ends   *)
(* by EOF or a fatal read error only s is closed and removed: the registry *)
(* entry, closed flag, PTY, clients and buffer of every other session are  *)
(* unchanged, and so is the workspace.                                     *)
(***************************************************************************)
C20_FailureIsolated ==
    [][(call'.op = "close_session" /\ call'.via \in {"eof", "error"}) =>
          /\ DOMAIN svc_sessions' = DOMAIN svc_sessions \ {call'.session_id}
          /\ \A o \in DOMAIN svc_sessions' :
                /\ svc_sessions'[o] = svc_sessions[o]
                /\ o \in read_tasks'
                /\ {svc_sessions[o].master_fd, svc_sessions[o].slave_fd} \subseteq open_fds'
                /\ winsize'[svc_sessions[o].master_fd] = winsize[svc_sessions[o].master_fd]
                /\ svc_sessions[o].pid \in procs'
                /\ get_buffer(o)' = get_buffer(o)
          /\ UNCHANGED wsVars]_vars

\* The read loop of s2 ended on a read error and closed s2 while s1 is live
\* with a client attached and output in its buffer.
C20_Witness ==
    /\ call.op = "close_session"
    /\ call.session_id = "s2"
    /\ call.via = "error"
    /\ "s2" \notin DOMAIN svc_sessions
    /\ "s1" \in DOMAIN svc_sessions
    /\ svc_sessions["s1"].client_sids # {}
    /\ get_buffer("s1") # <<>>

(***************************************************************************)
(* C12: in every reachable state every tab has at most MAX_PANES_PER_TAB   *)
(* panes, after any sequence of create_tab, create_pane and                *)
(* update_workspace.                                                       *)
(***************************************************************************)
C12_PaneLimit ==
    /\ \A i \in 1 .. Len(tabs) : Len(tabs[i].panes) <= MAX_PANES_PER_TAB
    /\ \A i \in 1 .. Len(mgmt_tabs) : Len(mgmt_tabs[i].panes) <= MAX_PANES_PER_TAB

(***************************************************************************)
(* C13: in every reachable workspace state at most one tab has its         *)
(* isActive flag set, after any sequence of create_tab, close_tab,         *)
(* update_pane_session and update_workspace.                               *)
(***************************************************************************)
C13_OneActiveTab ==
    \A i, j \in 1 .. Len(tabs) : (tabs[i].isActive /\ tabs[j].isActive) => i = j

(***************************************************************************)
(* C16: a reconnect request for a session id that has no registry entry    *)
(* never creates a session or PTY and never changes the registry.  If the  *)
(* buffer store holds content for the id the content is replayed and the   *)
(* status is restored_from_buffer; if it holds none the client is told     *)
(* that the session was not found (event session_not_found).               *)
(***************************************************************************)
C16_ReconnectUnregistered ==
    [][\A s \in RequestedIds :
          (call'.op = "reconnect_session" /\ call'.session_id = s
             /\ s \notin DOMAIN sessions) =>
              /\ UNCHANGED <<sessions, closed_sessions, session_owners, timers,
                             pty_spawned, pty_input, session_buffers>>
              /\ IF get_buffer(s) # <<>> /\ get_buffer(s)[1] # <<>>
                 THEN call'.reply = <<Ev("terminal_output", "history", None),
                                      Ev("terminal_ready", "restored_from_buffer", None)>>
                 ELSE call'.reply = <<Ev("session_not_found", None, None)>>]_vars

\* s1 was closed and its buffer outlived it; a reconnect request for s1 was
\* just answered from the buffer.
C16_Witness ==
    /\ call.op = "reconnect_session"
    /\ call.session_id = "s1"
    /\ "s1" \notin DOMAIN sessions
    /\ "s1" \in closed_sessions
    /\ get_buffer("s1") # <<>>
    /\ LastStatus(call.reply) = "restored_from_buffer"

(***************************************************************************)
(* C17: the ownership check compares by authenticated principal first and  *)
(* falls back to the network address only when a principal is missing.     *)
(* When the owner record and the requester both carry a principal the      *)
(* result is whether the principals are equal, whatever the addresses;     *)
(* otherwise it is whether both carry an address and the addresses are     *)
(* equal; an id with no owner record yields false.                         *)
(***************************************************************************)
C17_OwnerByPrincipal ==
    call.op = "check_session_ownership" =>
        LET u == call.user_info
        IN  IF call.session_id \notin DOMAIN session_owners
            THEN call.ret = FALSE
            ELSE LET o == session_owners[call.session_id]
                 IN  IF u.remote_user # None /\ o.remote_user # None
                     THEN call.ret = (u.remote_user = o.remote_user)
                     ELSE call.ret = (/\ u.remote_addr # None
                                      /\ o.remote_addr # None
                                      /\ u.remote_addr = o.remote_addr)

\* Whether reply is the one answer "terminal_closed, session_already_closed"
\* with an is_owner flag.
AlreadyClosed(reply) ==
    /\ Len(reply) = 1
    /\ reply[1].event = "terminal_closed"
    /\ reply[1].status = "session_already_closed"
    /\ reply[1].is_owner \in {"True", "False"}

\* Nothing was created, spawned or attached by the step.
NothingRevived ==
    UNCHANGED <<sessions, closed_sessions, session_owners, pty_spawned, timers>>

C19_ResumeWorkspaceReply ==
    [][\A s \in RequestedIds :
          (call'.op = "resume_workspace" /\ call'.session_id = s
             /\ LastStatus(call'.reply) \in {"resumed", "created"}) =>
              /\ s \in DOMAIN sessions'
              /\ ~sessions'[s].closed
              /\ call'.sid \in sessions'[s].client_sids
              /\ LastStatus(call'.reply) = "created" =>
                     /\ s \notin DOMAIN sessions
                     /\ pty_spawned' = pty_spawned + 1]_vars

(***************************************************************************)
(* C21: whenever a session is closed (explicit close_session, EOF or a     *)
(* fatal read error) every client that was attached to it at the moment    *)
(* of closure is notified: it is sent terminal_closed for that session.    *)
(***************************************************************************)
C21_CloseNotifies ==
    [][\A s \in SessionIds :
          (call'.op = "close_session" /\ call'.session_id = s
             /\ s \in DOMAIN svc_sessions) =>
              svc_sessions[s].client_sids \subseteq call'.notified]_vars

(***************************************************************************)
(* C22: after append_to_buffer(s, chunk) the buffer of s is the trailing   *)
(* min(MAX_BUFFER_SIZE, len(old) + len(chunk)) characters of old followed  *)
(* by chunk, old being the buffer of s before the call (empty when s had   *)
(* none).                                                                  *)
(***************************************************************************)
C22_AppendKeepsSuffix ==
    [][call'.op = "append_to_buffer" =>
          LET s   == call'.session_id
              old == IF s \in DOMAIN session_buffers THEN session_buffers[s] ELSE <<>>
              cat == old \o call'.data
              k   == IF Len(cat) < MAX_BUFFER_SIZE THEN Len(cat) ELSE MAX_BUFFER_SIZE
          IN  /\ s \in DOMAIN session_buffers'
              /\ session_buffers'[s] = SubSeq(cat, Len(cat) - k + 1, Len(cat))]_vars

\* An append that met a non-empty buffer and left a full one that ends with
\* the chunk, the older character in front of it.
C22_Witness ==
    /\ call.op = "append_to_buffer"
    /\ Len(call.data) = 1
    /\ call.session_id \in DOMAIN session_buffers
    /\ Len(session_buffers[call.session_id]) = MAX_BUFFER_SIZE
    /\ session_buffers[call.session_id][MAX_BUFFER_SIZE] = call.data[1]
    /\ session_buffers[call.session_id][1] # call.data[1]

(***************************************************************************)
(* C23: in the read loop a read that reports "no data yet" (EAGAIN) never  *)
(* closes the session, whose loop stays to read again; a read of EOF       *)
(* closes the session, and so does every other read error.  After the      *)
(* close the session is not in the registry and has no read task.          *)
(***************************************************************************)
C23_ReadLoop ==
    [][\A s \in read_tasks :
          (call'.op \in {"read_retry", "close_session"} /\ call'.session_id = s
             /\ ~svc_sessions[s].closed) =>
              /\ call'.via = "EAGAIN" =>
                    /\ call'.op = "read_retry"
                    /\ svc_sessions' = svc_sessions
                    /\ s \in read_tasks'
              /\ call'.via \in {"eof", "error"} =>
                    /\ call'.op = "close_session"
                    /\ s \notin DOMAIN svc_sessions'
                    /\ s \notin read_tasks']_vars

\* The loop of a session that has produced output met EAGAIN and reads on.
C23_Witness ==
    /\ call.op = "read_retry"
    /\ call.via = "EAGAIN"
    /\ call.session_id \in read_tasks
    /\ get_buffer(call.session_id) # <<>>

(***************************************************************************)
(* C24: write_to_session returns failure and writes nothing when the       *)
(* session is missing or closed; for a live session it writes the bytes    *)
(* to the master side of the PTY, updates last_activity and returns        *)
(* success.  The registry is the same after the call.                      *)
(***************************************************************************)
C24_Write ==
    [][call'.op = "write_to_session" =>
          LET s    == call'.session_id
              live == s \in DOMAIN svc_sessions /\ ~svc_sessions[s].closed
          IN  /\ svc_sessions' = svc_sessions
              /\ ~live => (~call'.ret /\ call'.written = <<>> /\ ~call'.touched)
              /\ live => (call'.ret /\ call'.written = call'.data /\ call'.touched)]_vars

TimersOf(tm, s) == {task \in DOMAIN tm : tm[task].session = s}

(***************************************************************************)
(* C26: every attach to a session through create_terminal,                 *)
(* reconnect_session, resume_terminal or resume_workspace leaves the       *)
(* session without a pending closure timer, and at all times a session     *)
(* with at least one attached client has no closure timer running.         *)
(***************************************************************************)
C26_AttachCancelsTimer ==
    /\ [](\A s \in DOMAIN sessions : sessions[s].client_sids # {} => TimersOf(timers, s) = {})
    /\ [][\A s \in DOMAIN sessions' :
             (call'.op \in AttachOps /\ call'.session_id = s
                /\ call'.sid \in sessions'[s].client_sids) =>
                 TimersOf(timers', s) = {}]_vars

(***************************************************************************)
(* C27: however attach handlers and closure timers interleave, a closure   *)
(* timer whose sleep is over never closes a session that has an attached   *)
(* client when the timer's action begins, and no client is ever added to   *)
(* the client set of a session that is closed.                             *)
(***************************************************************************)
C27_TimerAttachAtomic ==
    [][\A s \in SessionIds :
          /\ (call'.op = "closure_task" /\ call'.session_id = s
                /\ s \in DOMAIN sessions /\ sessions[s].client_sids # {}) =>
                  /\ ~call'.closed
                  /\ s \in DOMAIN sessions'
                  /\ ~sessions'[s].closed
                  /\ sessions'[s].client_sids = sessions[s].client_sids
          /\ \A c \in Clients :
                (/\ s \in DOMAIN sessions'
                 /\ c \in sessions'[s].client_sids
                 /\ (s \in DOMAIN sessions => c \notin sessions[s].client_sids)) =>
                    /\ ~sessions'[s].closed
                    /\ s \notin closed_sessions'
                    /\ s \in DOMAIN sessions => ~sessions[s].closed]_vars

\* A closure timer ended its sleep on a session that a client had attached to
\* meanwhile, and left the session open.
C27_Witness ==
    /\ call.op = "closure_task"
    /\ ~call.closed
    /\ call.session_id \in DOMAIN sessions
    /\ sessions[call.session_id].client_sids # {}
    /\ ~sessions[call.session_id].closed

(***************************************************************************)
(* C28: close_tab of the active tab makes the first remaining tab the      *)
(* active one (its isActive flag is true, no other tab has the flag, and   *)
(* activeTabId names it), or clears activeTabId when no tab remains;       *)
(* close_tab of another tab leaves activeTabId as it was.                  *)
(***************************************************************************)
C28_CloseTabActive ==
    [][(call'.op = "close_tab" /\ call'.ret) =>
          IF activeTabId = call'.tab_id
          THEN IF tabs' = <<>>
               THEN activeTabId' = None
               ELSE /\ activeTabId' = tabs'[1].id
                    /\ tabs'[1].isActive
                    /\ \A i \in 2 .. Len(tabs') : ~tabs'[i].isActive
          ELSE activeTabId' = activeTabId]_vars

\* The session id names a terminal that is registered and not closed.
LiveIn(registry, session_id) ==
    session_id \in DOMAIN registry /\ ~registry[session_id].closed

\* The panes of the tabs ts, by their place.
PanePlaces(ts) == {<<i, j>> \in (1 .. Len(ts)) \X (1 .. MAX_PANES_PER_TAB) : j <= Len(ts[i].panes)}

(***************************************************************************)
(* C29: after cleanup_closed_sessions every pane with a session id refers  *)
(* to a terminal that is registered and not closed; the panes that         *)
(* referred to a missing or closed terminal have no session id and the     *)
(* status disconnected, the panes of live terminals and everything else    *)
(* are as before, and a second call changes nothing.                       *)
(***************************************************************************)
C29_Cleanup ==
    [][call'.op = "cleanup_closed_sessions" =>
          /\ Len(tabs') = Len(tabs)
          /\ PanePlaces(tabs') = PanePlaces(tabs)
          /\ \A m \in PanePlaces(tabs) :
                LET p == tabs[m[1]].panes[m[2]]
                    q == tabs'[m[1]].panes[m[2]]
                IN  /\ q.sessionId # None => LiveIn(sessions', q.sessionId)
                    /\ IF p.sessionId # None /\ ~LiveIn(sessions, p.sessionId)
                       THEN q = [p EXCEPT !.sessionId = None, !.status = "disconnected"]
                       ELSE q = p
          /\ \A i \in 1 .. Len(tabs) :
                tabs'[i] = [tabs[i] EXCEPT !.panes = tabs'[i].panes]
          /\ UNCHANGED <<activeTabId, ws_name, ws_layout, sockVars>>
          /\ cleanup_closed_sessions(tabs', sessions') = tabs']_vars

\* A cleanup has just run over a pane it unbound and a pane bound to a live
\* terminal.
C29_Witness ==
    /\ call.op = "cleanup_closed_sessions"
    /\ \E m \in PanePlaces(tabs) :
          tabs[m[1]].panes[m[2]].status = "disconnected"
    /\ \E m \in PanePlaces(tabs) :
          LiveIn(sessions, tabs[m[1]].panes[m[2]].sessionId)

\* The session ids the panes of the tabs ts are bound to.
BoundIds(ts) ==
    {ts[m[1]].panes[m[2]].sessionId : m \in PanePlaces(ts)} \ {None}

(***************************************************************************)
(* C30: a pane's session id is set only to the id of a session that is in  *)
(* the registry when the pane is bound; when the terminal creation of      *)
(* tab_create fails or is rejected, the pane of the new tab stays unbound. *)
(***************************************************************************)
C30_BindRegistered ==
    [][\A s \in BoundIds(tabs') \ BoundIds(tabs) : s \in DOMAIN sessions']_vars

(***************************************************************************)
(* C31: when update_workspace is rejected because the tab list it was      *)
(* given is longer than MAX_TABS, the workspace is as it was before the    *)
(* call: name, tabs, activeTabId and layout keep their values.             *)
(***************************************************************************)
C31_RejectedUpdate ==
    [][(call'.op = "update_workspace" /\ call'.ret = "ValueError") =>
          UNCHANGED <<ws_name, tabs, activeTabId, ws_layout>>]_vars

(***************************************************************************)
(* C32: a terminal_resize event from a client whose stored role is Viewer  *)
(* for a registered session leaves the rows and cols stored for the        *)
(* session and the window size of its PTY unchanged, and is answered with  *)
(* a rejection.                                                            *)
(***************************************************************************)
C32_ViewerResize ==
    [][(/\ call'.op = "handle_terminal_resize"
        /\ ~can_user_modify(call'.sid)
        /\ call'.session_id \in DOMAIN svc_sessions) =>
          /\ svc_sessions' = svc_sessions
          /\ winsize' = winsize
          /\ call'.reply # <<>>]_vars

(***************************************************************************)
(* C33: when create_session fails after the PTY pair has been allocated    *)
(* (make_non_blocking or spawn_shell raises) the registry has no entry and *)
(* no read task for the id, every other session is as before, and the two  *)
(* descriptors that were allocated are closed again, not left open.        *)
(***************************************************************************)
C33_CreateFailure ==
    [][(call'.op = "create_session" /\ call'.raised = "OSError") =>
          /\ call'.session_id \notin DOMAIN svc_sessions'
          /\ call'.session_id \notin read_tasks'
          /\ svc_sessions' = svc_sessions
          /\ read_tasks' = read_tasks
          /\ procs' = procs
          /\ open_fds' = open_fds]_vars

(***************************************************************************)
(* C34: in the TerminalHandler endpoint, when handle_disconnect has        *)
(* removed the last attached client of a session, the session is           *)
(* eventually closed and removed from the registry unless a client         *)
(* attaches to it again: a session without clients does not stay alive     *)
(* forever.                                                                *)
(***************************************************************************)
C34_DetachedCloses ==
    \A s \in RequestedIds :
        (/\ call.op = "handle_disconnect"
         /\ s \in call.left
         /\ s \in DOMAIN svc_sessions
         /\ svc_sessions[s].client_sids = {})
            ~> (s \notin DOMAIN svc_sessions \/ svc_sessions[s].client_sids # {})

(***************************************************************************)
(* C35: the shared workspace does not depend on the clients' connections:  *)
(* connect and disconnect of any client leave its name, layout, tabs,      *)
(* panes, the panes' session ids and activeTabId unchanged, so a client    *)
(* that comes back finds the tabs as they were last created or updated.    *)
(***************************************************************************)
C35_WorkspaceOutlivesClients ==
    [][call'.op \in {"connect", "disconnect"} =>
          UNCHANGED <<tabs, activeTabId, ws_name, ws_layout>>]_vars

\* A client has just connected after a terminal lost its last client, and the
\* workspace holds a tab whose pane is bound to that terminal.
C35_Witness ==
    /\ call.op = "connect"
    /\ tabs # <<>>
    /\ activeTabId # None
    /\ \E s \in BoundIds(tabs) : s \in DOMAIN detached_for /\ s \in DOMAIN sessions

(***************************************************************************)
(* C36: in every reachable state a session has at most one pending closure *)
(* timer and, when one is pending, the session's closure-task reference    *)
(* points to it: a timer that was cancelled and replaced never clears the  *)
(* reference to its replacement.                                           *)
(***************************************************************************)
C36_OneTimer ==
    \A s \in DOMAIN sessions :
        /\ Cardinality(TimersOf(timers, s)) <= 1
        /\ TimersOf(timers, s) # {} => sessions[s].closure_task \in TimersOf(timers, s)

(***************************************************************************)
(* C37: a client that attaches to or detaches from a session while the     *)
(* session's output fan-out is suspended in the middle of its delivery     *)
(* never causes the session to be closed and never aborts the fan-out: a   *)
(* session is closed only by an explicit close, by EOF of its PTY or by a  *)
(* fatal error of a PTY read (the endpoint has no grace-period timer).     *)
(***************************************************************************)
C37_FanoutSurvives ==
    [][\A s \in DOMAIN svc_sessions :
          (call'.op = "close_session" /\ call'.session_id = s) =>
              call'.via \in {"explicit", "eof", "error"}]_vars

\* C38: every id in a terminal's attached-client set is the id of a client
\* that is connected, also when a handler of a client that has left goes on
\* after its await.
C38_AttachedAreConnected ==
    \A s \in DOMAIN sessions : sessions[s].client_sids \subseteq DOMAIN user_roles

\* C39: a client whose stored role is Viewer keeps that role, and so stays
\* unable to modify, through every step in which it stays connected,
\* workspace_connect with a role field included.
C39_ViewerStaysViewer ==
    [][\A c \in DOMAIN user_roles \cap DOMAIN user_roles' :
           user_roles[c] = "Viewer" => user_roles'[c] = "Viewer"]_vars

\* C40: activeTabId is None or the id of a tab in tabs, and it is None only
\* when no tab is flagged active, after any sequence of create_tab, close_tab
\* and update_workspace.
C40_ActiveTabNamesTab ==
    /\ activeTabId = None \/ \E i \in 1 .. Len(tabs) : tabs[i].id = activeTabId
    /\ activeTabId = None => \A i \in 1 .. Len(tabs) : ~tabs[i].isActive

=============================================================================
